---- MODULE Spec2Model ----
(***************************************************************************)
(* Token lifecycle, device binding and offline-first login of ACENEXACBT.  *)
(*                                                                         *)
(* The repository holds two builds of the client token module              *)
(* (src/services/auth.ts and src/unnamed/part_000) and four builds of the  *)
(* Express server (src/server.js, two in src/vite.config.ts and one in     *)
(* src/unnamed/part_002).  A deployment runs one client build against one  *)
(* server build: `client` and `server` are fixed by Init.                  *)
(*                                                                         *)
(* Every client function and every route handler is a pure operator that   *)
(* maps the state it reads and its inputs to the state it leaves and the   *)
(* value it returns or the error it throws; the actions apply them.        *)
(***************************************************************************)
EXTENDS Integers, Sequences, FiniteSets, TLC

VARIABLES
  server,        \* the server build that answers /api/...
  client,        \* the client build that runs on the devices
  forceOffline,  \* FORCE_OFFLINE of the client build
  now,           \* the wall clock (Date.now()), in model time units
  remote,        \* the token table of the remote authority: code -> row
  cache,         \* per device, localStorage[LOCAL_TOKENS_KEY]: a list of TokenInfo
  session,       \* per device, localStorage[CURRENT_USER_KEY]: <<>> or <<user>>
  mirrored,      \* per device, the codes mirrored by an online login and not
                 \* reset, deactivated or deleted on that device since (history)
  requests,      \* per device, its request the server is handling between two
                 \* awaits: <<>> or <<request>>
  listing,       \* what the last getAllTokens returned: <<>> or <<result>>
  store,         \* per device, localStorage[LOCAL_ADMIN_KEY] (<<>> or <<credentials>>)
                 \* and localStorage[LOCAL_USERS_KEY] (a list of User); where the
                 \* readers are modelled, also the stored text of each key (items)
  calls          \* per device, its last client call: <<>> or <<call>>, with the
                 \* timers and the fetch of the call, or the outcome of a reader

vars == <<server, client, forceOffline, now, remote, cache, session, mirrored, requests,
         listing, store, calls>>

---------------------------------------------------------------------------
\* Bounds of the model.

\* The clock stops at MaxTime.
MaxTime == 2

\* One year (setFullYear(getFullYear() + 1)) in model time units.
OneYear == 1

\* The least amount, in kobo, the payment routes accept.
MinAmount == 150000

\* JS null of a timestamp column (bound_at, expires_at).
NullTime == -1

---------------------------------------------------------------------------
\* Values.

Null == "null"
Undefined == "undefined"

\* JS falsiness of a string-or-null value: !x
Falsy(x) == x \in {Null, Undefined, ""}

ServerJs == "server.js"
ViteA == "vite.config.ts:access_codes"
ViteB == "vite.config.ts:access_tokens"
Part2 == "part_002"
Servers == {ServerJs, ViteA, ViteB, Part2}

AuthTs == "services/auth.ts"
Part0 == "part_000"
Clients == {AuthTs, Part0}

Devices == {"D1", "D2"}

\* getDeviceFingerprint() of a device, when it answers.
getDeviceFingerprint(d) == IF d = "D1" THEN "F1" ELSE "F2"

Fingerprints == {getDeviceFingerprint(d) : d \in Devices}

\* What the random source can return for the 12 code characters, grouped.
RandomBodies == {"AAAA-BBBB-CCCC"}

Prefixes == {"ACE", "LOCAL", "OFFLINE"}

\* `${prefix}-${result.substring(0,4)}-${result.substring(4,8)}-${result.substring(8,12)}`
generateSecureToken(prefix, body) == prefix \o "-" \o body

generateTokenCode(prefix, body) == prefix \o "-" \o body

generateAccessCode(prefix, body) == prefix \o "-" \o body

Codes == {generateSecureToken(p, b) : p \in Prefixes, b \in RandomBodies}

\* What a user can type for a code: the code, the code in lower case, the
\* code with surrounding blanks.
TypedLower == {<<"ace-aaaa-bbbb-cccc", "ACE-AAAA-BBBB-CCCC">>}

TypedPadded == {<<" ACE-AAAA-BBBB-CCCC ", "ACE-AAAA-BBBB-CCCC">>}

TypedForms == {p[1] : p \in TypedLower} \cup {p[1] : p \in TypedPadded}

TokenInputs == Codes \cup TypedForms

\* String.prototype.trim on the strings of the model.
Trim(s) == IF \E p \in TypedPadded : p[1] = s
           THEN (CHOOSE p \in TypedPadded : p[1] = s)[2]
           ELSE s

\* String.prototype.toUpperCase on the strings of the model.
ToUpperCase(s) == IF \E p \in TypedLower : p[1] = s
                  THEN (CHOOSE p \in TypedLower : p[1] = s)[2]
                  ELSE s

PaymentRefs == {"REF1"}

\* What the gateway reports for a reference: status and amount in kobo.
GatewayReports == {[status |-> "success", amount |-> MinAmount],
                   [status |-> "success", amount |-> MinAmount - 1],
                   [status |-> "failed", amount |-> MinAmount]}

\* The report of a payment the routes accept.
GatewayReports_Paid == [status |-> "success", amount |-> MinAmount]

FullName == "Ada"
ExamType == "JAMB"

\* User (auth.ts 15-22).  A response body that carries none of the User
\* fields, read as a User, has them all undefined.
User(username, fullName, regNumber, isTokenLogin, allowedExamType) ==
  [username |-> username, role |-> "student", fullName |-> fullName,
   regNumber |-> regNumber, isTokenLogin |-> isTokenLogin,
   allowedExamType |-> allowedExamType]

NoUser == [username |-> Undefined, role |-> Undefined, fullName |-> Undefined,
           regNumber |-> Undefined, isTokenLogin |-> FALSE,
           allowedExamType |-> Undefined]

\* metadata of a token record; the fields no code path reads back
\* (amount_paid, phone_number, email, paystack_id, verified_at) are left out.
Metadata(payment_ref, exam_type, full_name, generated_by) ==
  [payment_ref |-> payment_ref, exam_type |-> exam_type,
   full_name |-> full_name, generated_by |-> generated_by]

\* TokenInfo (auth.ts 24-42) as the client stores it.  `id` is never read
\* and created_at is read by the sort of getAllTokens alone: both are left out.
TokenInfo(token_code, is_active, device_fingerprint, metadata) ==
  [token_code |-> token_code, is_active |-> is_active,
   device_fingerprint |-> device_fingerprint, metadata |-> metadata]

\* A row of access_tokens (access_codes in ViteA, with is_used).  The
\* columns the token routes never read (id, created_at, price, created_by,
\* candidate_id) are left out.
Row(token_code, is_active, device_fingerprint, bound_at, expires_at, is_used, metadata) ==
  [token_code |-> token_code, is_active |-> is_active,
   device_fingerprint |-> device_fingerprint, bound_at |-> bound_at,
   expires_at |-> expires_at, is_used |-> is_used, metadata |-> metadata]

\* x || fallback
OrElse(x, fallback) == IF Falsy(x) THEN fallback ELSE x

\* supabase .insert([row]) on a table keyed by the code.
Insert(table, row) ==
  [c \in DOMAIN table \cup {row.token_code} |->
     IF c = row.token_code THEN row ELSE table[c]]

\* supabase .delete().eq('token_code', code)
DeleteRow(table, code) == [c \in DOMAIN table \ {code} |-> table[c]]

\* localStorage without LOCAL_ADMIN_KEY and LOCAL_USERS_KEY.
EmptyStore == [admin |-> <<>>, users |-> <<>>]

EmptyTable == [c \in {} |-> 0]

---------------------------------------------------------------------------
\* The server builds: route handlers.  A handler maps the table and the
\* request to the table it leaves and the response it sends.

Reply(table, status, kind, user) ==
  [table |-> table, res |-> [status |-> status, kind |-> kind, user |-> user]]

\* The identity the token routes of server.js and ViteB answer with.
RouteUser(tokenData) ==
  User(tokenData.token_code, OrElse(tokenData.metadata.full_name, "Student"),
       tokenData.token_code, TRUE, OrElse(tokenData.metadata.exam_type, "BOTH"))

\* POST /api/auth/login-with-token of server.js
ServerJsLoginWithToken(table, time, token, deviceFingerprint, confirm_binding) ==
  IF token \notin DOMAIN table THEN Reply(table, 401, "InvalidCode", NoUser)
  ELSE LET tokenData == table[token] IN
    IF ~tokenData.is_active THEN Reply(table, 403, "Deactivated", NoUser)
    ELSE IF Falsy(tokenData.device_fingerprint) THEN
      IF ~confirm_binding THEN Reply(table, 200, "RequiresBinding", NoUser)
      ELSE Reply([table EXCEPT ![token].device_fingerprint = deviceFingerprint],
                 200, "Success", RouteUser(tokenData))
    ELSE IF tokenData.device_fingerprint # deviceFingerprint
      THEN Reply(table, 403, "DeviceMismatch", NoUser)
    ELSE Reply(table, 200, "Success", RouteUser(tokenData))

\* bindAccessCode of ViteA: reads the row again, then writes it.
bindAccessCode(table, time, code, deviceFingerprint) ==
  IF code \notin DOMAIN table THEN Reply(table, 500, "ServerError", NoUser)
  ELSE LET data == table[code] IN
    IF data.is_used /\ data.device_fingerprint # deviceFingerprint
      THEN Reply(table, 500, "ServerError", NoUser)
    ELSE Reply([table EXCEPT ![code].device_fingerprint = deviceFingerprint,
                             ![code].is_used = TRUE],
               200, "Success", NoUser)

\* POST /api/auth/login-with-token of ViteA (table access_codes)
ViteALoginWithToken(table, time, token, deviceFingerprint, confirm_binding) ==
  IF token \notin DOMAIN table THEN Reply(table, 401, "InvalidCode", NoUser)
  ELSE LET tokenData == table[token] IN
    IF ~tokenData.is_active THEN Reply(table, 403, "Deactivated", NoUser)
    ELSE IF Falsy(tokenData.device_fingerprint) THEN
      IF ~confirm_binding THEN Reply(table, 200, "RequiresBinding", NoUser)
      ELSE bindAccessCode(table, time, token, deviceFingerprint)
    ELSE IF tokenData.device_fingerprint # deviceFingerprint
      THEN Reply(table, 403, "DeviceMismatch", NoUser)
    ELSE Reply(table, 200, "Success", NoUser)

\* POST /api/auth/login-with-token of ViteB
ViteBLoginWithToken(table, time, token, deviceFingerprint, confirm_binding) ==
  IF token \notin DOMAIN table THEN Reply(table, 401, "InvalidCode", NoUser)
  ELSE LET tokenData == table[token] IN
    IF ~tokenData.is_active THEN Reply(table, 403, "Deactivated", NoUser)
    ELSE IF tokenData.expires_at # NullTime /\ time > tokenData.expires_at
      THEN Reply(table, 403, "Expired", NoUser)
    ELSE IF Falsy(tokenData.device_fingerprint) THEN
      IF ~confirm_binding THEN Reply(table, 200, "RequiresBinding", NoUser)
      ELSE Reply([table EXCEPT ![token].device_fingerprint = deviceFingerprint],
                 200, "Success", RouteUser(tokenData))
    ELSE IF tokenData.device_fingerprint # deviceFingerprint
      THEN Reply(table, 403, "DeviceMismatch", NoUser)
    ELSE Reply(table, 200, "Success", RouteUser(tokenData))

\* POST /api/auth/login-with-token of Part2: its body carries no User field.
Part2LoginWithToken(table, time, token, deviceFingerprint, confirm_binding) ==
  IF token \notin DOMAIN table THEN Reply(table, 401, "InvalidCode", NoUser)
  ELSE LET tokenData == table[token] IN
    IF ~tokenData.is_active THEN Reply(table, 403, "Deactivated", NoUser)
    ELSE IF Falsy(tokenData.device_fingerprint) THEN
      IF ~confirm_binding THEN Reply(table, 200, "RequiresBinding", NoUser)
      ELSE Reply([table EXCEPT ![token].device_fingerprint = deviceFingerprint,
                               ![token].bound_at = time,
                               ![token].expires_at = time + OneYear],
                 200, "Success", NoUser)
    ELSE Reply(table, 200, "Success", NoUser)

\* The login route of the deployed build.
LoginWithTokenRoute(srv, table, time, token, deviceFingerprint, confirm_binding) ==
  CASE srv = ServerJs -> ServerJsLoginWithToken(table, time, token, deviceFingerprint, confirm_binding)
    [] srv = ViteA -> ViteALoginWithToken(table, time, token, deviceFingerprint, confirm_binding)
    [] srv = ViteB -> ViteBLoginWithToken(table, time, token, deviceFingerprint, confirm_binding)
    [] OTHER -> Part2LoginWithToken(table, time, token, deviceFingerprint, confirm_binding)

\* The columns createAccessCode leaves to the database's defaults.
ColumnDefaults == [is_active |-> TRUE, is_used |-> FALSE, device_fingerprint |-> Null]

\* token_code is the key of the table: an insert of a code it holds fails.
UniqueViolation(table, code) == code \in DOMAIN table

\* A route the deployed build does not define: Express answers 404 in HTML.
NoRoute(table) == Reply(table, 404, "NonJson", NoUser)

\* expires_at the build gives a new access_tokens row.
NewExpiry(srv, time) == IF srv \in {ServerJs, ViteB} THEN time + OneYear ELSE NullTime

\* The insert of the payment and generate-token routes.
InsertToken(srv, table, time, tokenCode, payment_ref, examType, fullName, generated_by) ==
  IF UniqueViolation(table, tokenCode) THEN Reply(table, 500, "ServerError", NoUser)
  ELSE Reply(Insert(table, Row(tokenCode, TRUE, Null, NullTime, NewExpiry(srv, time), FALSE,
                               Metadata(payment_ref, OrElse(examType, "BOTH"), fullName, generated_by))),
             200, tokenCode, NoUser)

\* The rows whose metadata->>payment_ref is the reference.
RowsOfReference(table, reference) ==
  {c \in DOMAIN table : table[c].metadata.payment_ref = reference}

\* POST /api/payments/verify-paystack (server.js, ViteB, Part2).  A 200
\* answer's kind is the token code it carries.
VerifyPaystackRoute(srv, table, time, reference, report, body) ==
  IF srv = ViteA THEN NoRoute(table)
  ELSE IF Cardinality(RowsOfReference(table, reference)) = 1
    THEN Reply(table, 200, CHOOSE c \in RowsOfReference(table, reference) : TRUE, NoUser)
  ELSE IF report.status # "success" THEN Reply(table, 400, "PaymentNotVerified", NoUser)
  ELSE IF report.amount < MinAmount THEN Reply(table, 400, "InvalidAmount", NoUser)
  ELSE InsertToken(srv, table, time, generateTokenCode("ACE", body), reference,
                   ExamType, FullName, Undefined)

\* POST /api/admin/generate-token (ViteB, Part2)
GenerateTokenRoute(srv, table, time, reference, body) ==
  IF srv \notin {ViteB, Part2} THEN NoRoute(table)
  ELSE InsertToken(srv, table, time, generateTokenCode("ACE", body),
                   OrElse(reference, "MANUAL"), ExamType, FullName, "ADMIN")

\* createAccessCode of ViteA, behind /api/admin/generate-code and
\* /api/access-code/purchase.
createAccessCode(srv, table, time, body) ==
  IF srv # ViteA THEN NoRoute(table)
  ELSE LET code == generateAccessCode("ACE", body) IN
    IF UniqueViolation(table, code) THEN Reply(table, 500, "ServerError", NoUser)
    ELSE Reply(Insert(table, Row(code, ColumnDefaults.is_active,
                                 ColumnDefaults.device_fingerprint, NullTime, NullTime,
                                 ColumnDefaults.is_used,
                                 Metadata(Undefined, Undefined, Undefined, Undefined))),
               200, code, NoUser)

\* token-status that also clears the device of the token.
TokenStatusRouteClearingDevice(srv, table, tokenCode, isActive) ==
  IF srv # Part2 THEN NoRoute(table)
  ELSE Reply([c \in DOMAIN table |->
                IF c = tokenCode
                  THEN [table[c] EXCEPT !.is_active = isActive, !.device_fingerprint = Null]
                  ELSE table[c]],
             200, "Success", NoUser)

\* POST /api/admin/token-status (Part2)
TokenStatusRoute(srv, table, tokenCode, isActive) ==
  IF srv # Part2 THEN NoRoute(table)
  ELSE Reply([c \in DOMAIN table |->
                IF c = tokenCode THEN [table[c] EXCEPT !.is_active = isActive] ELSE table[c]],
             200, "Success", NoUser)

\* POST /api/admin/reset-token-device (Part2)
ResetTokenDeviceRoute(srv, table, tokenCode) ==
  IF srv # Part2 THEN NoRoute(table)
  ELSE Reply([c \in DOMAIN table |->
                IF c = tokenCode THEN [table[c] EXCEPT !.device_fingerprint = Null] ELSE table[c]],
             200, "Success", NoUser)

\* DELETE /api/admin/tokens/:tokenCode (Part2)
DeleteTokenRoute(srv, table, tokenCode) ==
  IF srv # Part2 THEN NoRoute(table)
  ELSE Reply(DeleteRow(table, tokenCode), 200, "Success", NoUser)

---------------------------------------------------------------------------
\* The client builds (services/auth.ts, part_000).

\* How a request can fare: the client knows it is offline and sends
\* nothing; the request never reaches the server (transport error, or the
\* abort at the timeout); the server handles it and the response is lost or
\* comes after the timeout; the server handles it and its response arrives.
Nets == {"offline", "unreachable", "lost", "ok"}

\* The outcomes in which the caller has no answer of the remote authority.
UnreachableNets == {"offline", "unreachable", "lost"}

Ok(user, origin) == [ok |-> TRUE, kind |-> "Identity", origin |-> origin, user |-> user]

Err(kind, origin) == [ok |-> FALSE, kind |-> kind, origin |-> origin, user |-> NoUser]

\* apiRequest that checks the content type only when the status is not 200.
apiRequestTrustingStatus(net, table, reply) ==
  CASE forceOffline ->
         [sent |-> FALSE, table |-> table, ok |-> FALSE, kind |-> "OfflineEnforced", user |-> NoUser]
    [] ~forceOffline /\ net = "offline" ->
         [sent |-> FALSE, table |-> table, ok |-> FALSE, kind |-> "NetworkOffline", user |-> NoUser]
    [] ~forceOffline /\ net = "unreachable" ->
         [sent |-> TRUE, table |-> table, ok |-> FALSE, kind |-> "Transport", user |-> NoUser]
    [] ~forceOffline /\ net = "lost" ->
         [sent |-> TRUE, table |-> reply.table, ok |-> FALSE, kind |-> "Timeout", user |-> NoUser]
    [] OTHER ->
         [sent |-> TRUE, table |-> reply.table, ok |-> reply.res.status = 200,
          kind |-> reply.res.kind, user |-> reply.res.user]

\* apiRequest, given how the request fares and what the route would reply:
\* whether a request was sent, the table the server is left with, and the
\* data returned (ok) or the error thrown.
apiRequest(net, table, reply) ==
  CASE forceOffline ->
         [sent |-> FALSE, table |-> table, ok |-> FALSE, kind |-> "OfflineEnforced", user |-> NoUser]
    [] ~forceOffline /\ net = "offline" ->
         [sent |-> FALSE, table |-> table, ok |-> FALSE, kind |-> "NetworkOffline", user |-> NoUser]
    [] ~forceOffline /\ net = "unreachable" ->
         [sent |-> TRUE, table |-> table, ok |-> FALSE, kind |-> "Transport", user |-> NoUser]
    [] ~forceOffline /\ net = "lost" ->
         [sent |-> TRUE, table |-> reply.table, ok |-> FALSE, kind |-> "Timeout", user |-> NoUser]
    [] OTHER ->
         IF reply.res.kind = "NonJson"
           THEN [sent |-> TRUE, table |-> reply.table, ok |-> FALSE, kind |-> "NonJson", user |-> NoUser]
         ELSE [sent |-> TRUE, table |-> reply.table, ok |-> reply.res.status = 200,
               kind |-> reply.res.kind, user |-> reply.res.user]

\* unshift without the filter of the records of the same code.
saveLocalTokenUnfiltered(tokens, token) == <<token>> \o tokens

\* getLocalTokens().filter(...) then unshift
saveLocalToken(tokens, token) ==
  <<token>> \o SelectSeq(tokens, LAMBDA t : t.token_code # token.token_code)

\* { ...t, ...updates }
Merge(t, updates) == [f \in DOMAIN t |-> IF f \in DOMAIN updates THEN updates[f] ELSE t[f]]

\* updateLocalToken that computes the merged list and never stores it.
updateLocalTokenNotStored(tokens, tokenCode, updates) == tokens

updateLocalToken(tokens, tokenCode, updates) ==
  [i \in 1..Len(tokens) |->
     IF tokens[i].token_code = tokenCode THEN Merge(tokens[i], updates) ELSE tokens[i]]

deleteLocalToken(tokens, tokenCode) ==
  SelectSeq(tokens, LAMBDA t : t.token_code # tokenCode)

\* localTokens.find(t => t.token_code.toUpperCase() === token.trim().toUpperCase()):
\* the index of the first match, 0 when there is none.
FindLocal(tokens, token) ==
  LET hits == {i \in 1..Len(tokens) :
                 ToUpperCase(tokens[i].token_code) = ToUpperCase(Trim(token))}
  IN IF hits = {} THEN 0 ELSE CHOOSE i \in hits : \A j \in hits : i <= j

\* The identity verifyLocalToken returns for a record.
LocalUser(found) ==
  User(found.token_code, OrElse(found.metadata.full_name, "Candidate (Offline)"),
       found.token_code, TRUE, OrElse(found.metadata.exam_type, "BOTH"))

\* verifyLocalToken without its is_active test.
verifyLocalTokenNoActiveTest(tokens, token, currentFingerprint, confirmBinding) ==
  LET i == FindLocal(tokens, token) IN
  IF i = 0 THEN [tokens |-> tokens, result |-> Err("InvalidCode", "local")]
  ELSE LET found == tokens[i] IN
    IF Falsy(found.device_fingerprint) THEN
      IF ~confirmBinding THEN [tokens |-> tokens, result |-> Err("BindingRequired", "local")]
      ELSE [tokens |-> updateLocalToken(tokens, found.token_code,
                                        [device_fingerprint |-> currentFingerprint]),
            result |-> Ok(LocalUser(found), "local")]
    ELSE IF found.device_fingerprint # currentFingerprint
      THEN [tokens |-> tokens, result |-> Err("DeviceMismatch", "local")]
    ELSE [tokens |-> tokens, result |-> Ok(LocalUser(found), "local")]

\* verifyLocalToken: the list it leaves and the identity or the error.
verifyLocalToken(tokens, token, currentFingerprint, confirmBinding) ==
  LET i == FindLocal(tokens, token) IN
  IF i = 0 THEN [tokens |-> tokens, result |-> Err("InvalidCode", "local")]
  ELSE LET found == tokens[i] IN
    IF ~found.is_active THEN [tokens |-> tokens, result |-> Err("Deactivated", "local")]
    ELSE IF Falsy(found.device_fingerprint) THEN
      IF ~confirmBinding THEN [tokens |-> tokens, result |-> Err("BindingRequired", "local")]
      ELSE [tokens |-> updateLocalToken(tokens, found.token_code,
                                        [device_fingerprint |-> currentFingerprint]),
            result |-> Ok(LocalUser(found), "local")]
    ELSE IF found.device_fingerprint # currentFingerprint
      THEN [tokens |-> tokens, result |-> Err("DeviceMismatch", "local")]
    ELSE [tokens |-> tokens, result |-> Ok(LocalUser(found), "local")]

\* The mirror record without the fingerprint of the device.
MirrorTokenUnbound(token, currentFingerprint, user) ==
  TokenInfo(token, TRUE, Null,
            Metadata(Undefined, user.allowedExamType, user.fullName, "ONLINE_CACHE"))

\* The mirror record without its provenance.
MirrorTokenNoProvenance(token, currentFingerprint, user) ==
  TokenInfo(token, TRUE, currentFingerprint,
            Metadata(Undefined, user.allowedExamType, user.fullName, Undefined))

\* The record loginWithToken mirrors into the cache after an online success.
MirrorToken(token, currentFingerprint, user) ==
  TokenInfo(token, TRUE, currentFingerprint,
            Metadata(Undefined, user.allowedExamType, user.fullName, "ONLINE_CACHE"))

\* Whether the build rethrows BINDING_REQUIRED from its catch block
\* (auth.ts 196-198) or swallows it with every other error (part_000 181-183).
RethrowsBindingRequired(build) == build = AuthTs

\* The tail of loginWithToken without the write of the session.
LoginLocalNoSession(table, tokens, sess, token, fp, confirmBinding, sent, answer) ==
  LET v == verifyLocalToken(tokens, token, fp, confirmBinding) IN
  [table |-> table, tokens |-> v.tokens, session |-> sess,
   result |-> v.result, sent |-> sent, remote |-> answer, localRan |-> TRUE,
   mirror |-> FALSE]

\* The tail of loginWithToken: verifyLocalToken, then the session.
LoginLocal(table, tokens, sess, token, fp, confirmBinding, sent, answer) ==
  LET v == verifyLocalToken(tokens, token, fp, confirmBinding) IN
  [table |-> table, tokens |-> v.tokens,
   session |-> IF v.result.ok THEN <<v.result.user>> ELSE sess,
   result |-> v.result, sent |-> sent, remote |-> answer, localRan |-> TRUE,
   mirror |-> FALSE]

\* loginWithToken on device d: the remote table, the cache and the session
\* it leaves, the identity returned or the error thrown, whether a request
\* was sent, what the client saw the remote answer ("none": no answer),
\* whether verifyLocalToken ran and whether the mirror write was made.
loginWithToken(d, table, tokens, sess, token, confirmBinding, fpAnswers, net) ==
  IF ~fpAnswers
    THEN [table |-> table, tokens |-> tokens, session |-> sess,
          result |-> Err("DeviceIdentity", "client"), sent |-> FALSE,
          remote |-> "none", localRan |-> FALSE, mirror |-> FALSE]
  ELSE LET currentFingerprint == getDeviceFingerprint(d) IN
    IF forceOffline
      THEN LoginLocal(table, tokens, sess, token, currentFingerprint, confirmBinding, FALSE, "none")
    ELSE LET api == apiRequest(net, table,
                      LoginWithTokenRoute(server, table, now, token, currentFingerprint, confirmBinding))
             answer == IF net = "ok" THEN api.kind ELSE "none"
         IN
      IF api.ok /\ api.kind = "RequiresBinding" /\ RethrowsBindingRequired(client)
        THEN [table |-> api.table, tokens |-> tokens, session |-> sess,
              result |-> Err("BindingRequired", "remote"), sent |-> api.sent,
              remote |-> answer, localRan |-> FALSE, mirror |-> FALSE]
      ELSE IF api.ok /\ api.kind # "RequiresBinding"
        THEN [table |-> api.table,
              tokens |-> saveLocalToken(tokens, MirrorToken(token, currentFingerprint, api.user)),
              session |-> <<api.user>>,
              result |-> Ok(api.user, "remote"), sent |-> api.sent,
              remote |-> answer, localRan |-> FALSE, mirror |-> TRUE]
      ELSE LoginLocal(api.table, tokens, sess, token, currentFingerprint, confirmBinding,
                      api.sent, answer)

\* generateLocalTokenImmediate: the cache it leaves.
generateLocalTokenImmediate(tokens, reference, body) ==
  saveLocalToken(tokens,
    TokenInfo(generateSecureToken(IF forceOffline THEN "ACE" ELSE "LOCAL", body), TRUE, Null,
              Metadata(OrElse(reference, "MANUAL"), ExamType, FullName, "ADMIN")))

\* generateManualToken: the remote route, and the local token when it fails.
generateManualToken(table, tokens, reference, serverBody, localBody, net) ==
  LET api == apiRequest(net, table, GenerateTokenRoute(server, table, now, reference, serverBody)) IN
  IF ~forceOffline /\ api.ok
    THEN [table |-> api.table, tokens |-> tokens, ok |-> TRUE, token |-> api.kind]
  ELSE [table |-> api.table, tokens |-> generateLocalTokenImmediate(tokens, reference, localBody),
        ok |-> TRUE,
        token |-> generateSecureToken(IF forceOffline THEN "ACE" ELSE "LOCAL", localBody)]

\* verifyPaystackPayment (client)
verifyPaystackPayment(table, tokens, reference, report, serverBody, localBody, net) ==
  IF forceOffline
    THEN [table |-> table,
          tokens |-> saveLocalToken(tokens,
                       TokenInfo(generateSecureToken("OFFLINE", localBody), TRUE, Null,
                                 Metadata(reference, ExamType, FullName, Undefined))),
          ok |-> TRUE, token |-> generateSecureToken("OFFLINE", localBody)]
  ELSE LET api == apiRequest(net, table,
                    VerifyPaystackRoute(server, table, now, reference, report, serverBody)) IN
    [table |-> api.table, tokens |-> tokens, ok |-> api.ok, token |-> api.kind]

\* toggleTokenStatus
toggleTokenStatus(table, tokens, tokenCode, isActive, net) ==
  LET api == apiRequest(net, table, TokenStatusRoute(server, table, tokenCode, isActive)) IN
  [table |-> api.table,
   tokens |-> updateLocalToken(tokens, tokenCode, [is_active |-> isActive]),
   ok |-> forceOffline \/ api.ok]

\* resetTokenDevice
resetTokenDevice(table, tokens, tokenCode, net) ==
  LET api == apiRequest(net, table, ResetTokenDeviceRoute(server, table, tokenCode)) IN
  [table |-> api.table,
   tokens |-> updateLocalToken(tokens, tokenCode, [device_fingerprint |-> Null]),
   ok |-> forceOffline \/ api.ok]

\* deleteToken
deleteToken(table, tokens, tokenCode, net) ==
  LET api == apiRequest(net, table, DeleteTokenRoute(server, table, tokenCode)) IN
  [table |-> api.table, tokens |-> deleteLocalToken(tokens, tokenCode),
   ok |-> forceOffline \/ api.ok]

---------------------------------------------------------------------------
\* The state machine.

\* The deployments: services/auth.ts against the server builds it is shipped
\* with (server.js and the two middlewares of vite.config.ts), the second
\* client build against the server build it is shipped with, and one with
\* FORCE_OFFLINE set, where no request is ever sent and the two client builds
\* run the same code.
Deployments ==
  {<<srv, AuthTs, FALSE>> : srv \in {ServerJs, ViteA, ViteB}}
  \cup {<<Part2, Part0, FALSE>>, <<ServerJs, AuthTs, TRUE>>}

Init ==
  /\ \E dep \in Deployments :
       server = dep[1] /\ client = dep[2] /\ forceOffline = dep[3]
  /\ now = 0
  /\ remote = EmptyTable
  /\ cache = [d \in Devices |-> <<>>]
  /\ session = [d \in Devices |-> <<>>]
  /\ mirrored = [d \in Devices |-> {}]
  /\ requests = [d \in Devices |-> <<>>]
  /\ listing = <<>>
  /\ store = [d \in Devices |-> EmptyStore]
  /\ calls = [d \in Devices |-> <<>>]

\* Time passes: more than a year at a time, which is what the routes'
\* comparisons with expires_at can tell.
Tick ==
  /\ now + OneYear + 1 <= MaxTime
  /\ now' = now + OneYear + 1
  /\ UNCHANGED <<store, calls, listing, requests, server, client, forceOffline, remote, cache, session, mirrored>>

\* A user of device d submits a code.
LoginWithToken(d, token, confirmBinding, fpAnswers, net) ==
  LET r == loginWithToken(d, remote, cache[d], session[d], token, confirmBinding, fpAnswers, net) IN
  /\ remote' = r.table
  /\ cache' = [cache EXCEPT ![d] = r.tokens]
  /\ session' = [session EXCEPT ![d] = r.session]
  /\ mirrored' = IF r.mirror THEN [mirrored EXCEPT ![d] = @ \cup {token}] ELSE mirrored
  /\ UNCHANGED <<store, calls, listing, requests, server, client, forceOffline, now>>

\* logoutUser
LogoutUser(d) ==
  /\ session' = [session EXCEPT ![d] = <<>>]
  /\ UNCHANGED <<store, calls, listing, requests, server, client, forceOffline, now, remote, cache, mirrored>>

\* The admin screen of device d generates a token.
GenerateManualToken(d, reference, serverBody, localBody, net) ==
  LET r == generateManualToken(remote, cache[d], reference, serverBody, localBody, net) IN
  /\ remote' = r.table
  /\ cache' = [cache EXCEPT ![d] = r.tokens]
  /\ UNCHANGED <<store, calls, listing, requests, server, client, forceOffline, now, session, mirrored>>

\* The payment screen of device d reports a paid reference.
VerifyPaystackPayment(d, reference, report, serverBody, localBody, net) ==
  LET r == verifyPaystackPayment(remote, cache[d], reference, report, serverBody, localBody, net) IN
  /\ remote' = r.table
  /\ cache' = [cache EXCEPT ![d] = r.tokens]
  /\ UNCHANGED <<store, calls, listing, requests, server, client, forceOffline, now, session, mirrored>>

\* A request to /api/admin/generate-code or /api/access-code/purchase.
CreateAccessCode(body) ==
  /\ server = ViteA
  /\ remote' = createAccessCode(server, remote, now, body).table
  /\ UNCHANGED <<store, calls, listing, requests, server, client, forceOffline, now, cache, session, mirrored>>

\* What an admin call on device d does to the history of its mirrored codes.
Unmirror(d, tokenCode) == [mirrored EXCEPT ![d] = @ \ {tokenCode}]

\* The admin screen of device d activates or deactivates a token.
ToggleTokenStatus(d, tokenCode, isActive, net) ==
  LET r == toggleTokenStatus(remote, cache[d], tokenCode, isActive, net) IN
  /\ remote' = r.table
  /\ cache' = [cache EXCEPT ![d] = r.tokens]
  /\ mirrored' = IF isActive THEN mirrored ELSE Unmirror(d, tokenCode)
  /\ UNCHANGED <<store, calls, listing, requests, server, client, forceOffline, now, session>>

\* The admin screen of device d resets the device of a token.
ResetTokenDevice(d, tokenCode, net) ==
  LET r == resetTokenDevice(remote, cache[d], tokenCode, net) IN
  /\ remote' = r.table
  /\ cache' = [cache EXCEPT ![d] = r.tokens]
  /\ mirrored' = Unmirror(d, tokenCode)
  /\ UNCHANGED <<store, calls, listing, requests, server, client, forceOffline, now, session>>

\* The admin screen of device d deletes a token.
DeleteToken(d, tokenCode, net) ==
  LET r == deleteToken(remote, cache[d], tokenCode, net) IN
  /\ remote' = r.table
  /\ cache' = [cache EXCEPT ![d] = r.tokens]
  /\ mirrored' = Unmirror(d, tokenCode)
  /\ UNCHANGED <<store, calls, listing, requests, server, client, forceOffline, now, session>>

\* The admin screen leaves the reference of a manual token empty.
References == {Undefined}

\* The devices the admin screen is used on.
AdminDevices == {"D2"}

\* The devices the payment screen is used on.
PaymentDevices == {"D1"}

\* The codes the admin screen of device d lists (getAllTokens).
Listed(d) == DOMAIN remote \cup {cache[d][i].token_code : i \in 1..Len(cache[d])}

\* The codes a deployment can hold, as its users type them: the local
\* prefix is OFFLINE or ACE with FORCE_OFFLINE set and LOCAL without.
TypedCodes ==
  {generateSecureToken(p, b) :
     p \in (IF forceOffline THEN {"ACE", "OFFLINE"} ELSE {"ACE", "LOCAL"}), b \in RandomBodies}
  \cup TypedForms

\* The submissions of a code: when the fingerprint does not answer, the
\* other inputs are not read.
LoginInputs ==
  {<<token, confirmBinding, TRUE, net>> :
     token \in TypedCodes, confirmBinding \in BOOLEAN, net \in Nets}
  \cup {<<CHOOSE token \in TypedCodes : TRUE, FALSE, FALSE, "ok">>}

Next ==
  \/ Tick
  \/ \E d \in Devices, in \in LoginInputs : LoginWithToken(d, in[1], in[2], in[3], in[4])
  \/ \E d \in Devices : LogoutUser(d)
  \/ \E d \in AdminDevices, reference \in References, serverBody \in RandomBodies,
        localBody \in RandomBodies, net \in Nets :
       GenerateManualToken(d, reference, serverBody, localBody, net)
  \/ \E d \in PaymentDevices, reference \in PaymentRefs, report \in GatewayReports,
        serverBody \in RandomBodies, localBody \in RandomBodies, net \in Nets :
       VerifyPaystackPayment(d, reference, report, serverBody, localBody, net)
  \/ \E body \in RandomBodies : CreateAccessCode(body)
  \/ \E d \in AdminDevices, isActive \in BOOLEAN, net \in Nets :
       \E tokenCode \in Listed(d) : ToggleTokenStatus(d, tokenCode, isActive, net)
  \/ \E d \in AdminDevices, net \in Nets :
       \E tokenCode \in Listed(d) : ResetTokenDevice(d, tokenCode, net)
  \/ \E d \in AdminDevices, net \in Nets :
       \E tokenCode \in Listed(d) : DeleteToken(d, tokenCode, net)

Spec == Init /\ [][Next]_vars

---------------------------------------------------------------------------
\* Properties.

\* A row or record whose expires_at, when set, lies before time.
Expired(row, time) == row.expires_at # NullTime /\ time > row.expires_at

\* loginWithToken of device d in the current state.
Login(d, token, confirmBinding, net) ==
  loginWithToken(d, remote, cache[d], session[d], token, confirmBinding, TRUE, net)

\* Device d is let in with the code as things stand, without binding anything.
LetIn(d, token) == \E net \in Nets : Login(d, token, FALSE, net).result.ok

\* C1: a code never lets two devices of different fingerprints in at the same
\* time: in no reachable state would loginWithToken (online or through the
\* fallback) return an identity for the same code on two devices.
C1_BindingExclusivity ==
  \A token \in Codes : \A d1, d2 \in Devices :
    getDeviceFingerprint(d1) # getDeviceFingerprint(d2) =>
      ~(LetIn(d1, token) /\ LetIn(d2, token))

\* C2: for an active, unexpired token bound to a fingerprint, verification
\* with another fingerprint answers DeviceMismatch and changes nothing, on the
\* login route of the deployed server and in verifyLocalToken, for either
\* value of confirmBinding.
C2_MismatchAlwaysDenied ==
  /\ \A token \in DOMAIN remote, f \in Fingerprints, confirm \in BOOLEAN :
       LET row == remote[token]
           r == LoginWithTokenRoute(server, remote, now, token, f, confirm)
       IN (row.is_active /\ ~Expired(row, now) /\ ~Falsy(row.device_fingerprint)
             /\ row.device_fingerprint # f)
          => (r.res.kind = "DeviceMismatch" /\ r.res.status = 403 /\ r.table = remote)
  /\ \A d \in Devices, token \in TokenInputs, f \in Fingerprints, confirm \in BOOLEAN :
       LET i == FindLocal(cache[d], token)
           v == verifyLocalToken(cache[d], token, f, confirm)
       IN (i # 0 /\ cache[d][i].is_active /\ ~Falsy(cache[d][i].device_fingerprint)
             /\ cache[d][i].device_fingerprint # f)
          => (v.result.kind = "DeviceMismatch" /\ v.tokens = cache[d])

\* C3: for an unbound, active (and unexpired) token, loginWithToken without
\* confirmBinding throws BINDING_REQUIRED and leaves the remote table, the
\* cache and the session as they were, both when the remote authority
\* answers and when the cache is evaluated instead.
C3_BindingRequiredNoMutation ==
  \A d \in Devices :
    /\ \A token \in DOMAIN remote :
         LET row == remote[token]
             r == Login(d, token, FALSE, "ok")
         IN (~forceOffline /\ row.is_active /\ ~Expired(row, now)
               /\ Falsy(row.device_fingerprint))
            => (r.result.kind = "BindingRequired" /\ r.table = remote
                  /\ r.tokens = cache[d] /\ r.session = session[d])
    /\ \A token \in TokenInputs, net \in UnreachableNets :
         LET i == FindLocal(cache[d], token)
             r == Login(d, token, FALSE, net)
         IN (i # 0 /\ cache[d][i].is_active /\ Falsy(cache[d][i].device_fingerprint))
            => (r.result.kind = "BindingRequired" /\ r.table = remote
                  /\ r.tokens = cache[d] /\ r.session = session[d])

\* The columns of a row that a repeated verification must leave alone.
Binding(row) == <<row.device_fingerprint, row.bound_at, row.expires_at>>

\* The remote half of C4, for the later calls made at any time or, with
\* untilExpiry, at the times before the token's expiry.
BindsOnceRemote(untilExpiry) ==
  \A token \in DOMAIN remote, f \in Fingerprints :
    LET first == LoginWithTokenRoute(server, remote, now, token, f, FALSE)
        bind == LoginWithTokenRoute(server, remote, now, token, f, TRUE)
    IN first.res.kind = "RequiresBinding" =>
         /\ first.table = remote
         /\ bind.res.kind = "Success" /\ bind.res.status = 200
         /\ bind.table[token].device_fingerprint = f
         /\ \A time \in now..MaxTime, confirm \in BOOLEAN :
              (untilExpiry => ~Expired(bind.table[token], time)) =>
                LET again == LoginWithTokenRoute(server, bind.table, time, token, f, confirm)
                IN /\ again.res.kind = "Success" /\ again.res.status = 200
                   /\ Binding(again.table[token]) = Binding(bind.table[token])

\* The local half of C4.
BindsOnceLocal ==
  \A d \in Devices, token \in TokenInputs, f \in Fingerprints :
    LET first == verifyLocalToken(cache[d], token, f, FALSE)
        bind == verifyLocalToken(cache[d], token, f, TRUE)
        i == FindLocal(cache[d], token)
    IN first.result.kind = "BindingRequired" =>
         /\ first.tokens = cache[d]
         /\ bind.result.ok
         /\ bind.tokens[i].device_fingerprint = f
         /\ \A confirm \in BOOLEAN :
              LET again == verifyLocalToken(bind.tokens, token, f, confirm)
              IN again.result.ok /\ again.tokens = bind.tokens

\* C4 as stated: after BindingRequired, a verification with confirmBinding
\* and fingerprint F binds the token to F, and every later verification with
\* F, at any later time, succeeds and leaves deviceFingerprint, boundAt and
\* expiresAt unchanged.
C4_BindsOnceThenSucceedsForEver ==
  BindsOnceRemote(FALSE) /\ BindsOnceLocal

\* C4, amended: after BindingRequired, a verification with confirmBinding and
\* fingerprint F binds the token to F, and every later verification with F
\* made before the token's expiry succeeds and leaves deviceFingerprint,
\* boundAt and expiresAt unchanged.
C4_BindsOnceThenIdempotent ==
  BindsOnceRemote(TRUE) /\ BindsOnceLocal

\* A token bound by a confirmed login on a device, remotely and in its cache,
\* that the same device is let in with again.
C4_Witness ==
  \E d \in Devices, token \in Codes :
    /\ token \in DOMAIN remote
    /\ remote[token].device_fingerprint = getDeviceFingerprint(d)
    /\ session[d] # <<>>
    /\ LoginWithTokenRoute(server, remote, now, token, getDeviceFingerprint(d), FALSE).res.kind
         = "Success"
    /\ \E local \in Codes :
         /\ FindLocal(cache[d], local) # 0
         /\ cache[d][FindLocal(cache[d], local)].metadata.generated_by = "ADMIN"
         /\ cache[d][FindLocal(cache[d], local)].device_fingerprint = getDeviceFingerprint(d)
         /\ verifyLocalToken(cache[d], local, getDeviceFingerprint(d), FALSE).result.ok

\* C5: a record with is_active false is answered Deactivated by the login
\* route of every server build and by verifyLocalToken, whatever its
\* fingerprint and expiry, the fingerprint supplied, confirmBinding and the
\* time; nothing is bound or changed.
C5_DeactivationDominates ==
  /\ \A token \in DOMAIN remote, srv \in Servers, f \in Fingerprints,
        confirm \in BOOLEAN, time \in 0..MaxTime :
       LET r == LoginWithTokenRoute(srv, remote, time, token, f, confirm)
       IN ~remote[token].is_active =>
            (r.res.kind = "Deactivated" /\ r.res.status = 403 /\ r.table = remote)
  /\ \A d \in Devices, token \in TokenInputs, f \in Fingerprints, confirm \in BOOLEAN :
       LET i == FindLocal(cache[d], token)
           v == verifyLocalToken(cache[d], token, f, confirm)
       IN (i # 0 /\ ~cache[d][i].is_active) =>
            (v.result.kind = "Deactivated" /\ ~v.result.ok /\ v.tokens = cache[d])

\* A deactivated token that is bound and expired remotely, and a deactivated
\* record in the cache of the device it is bound to: its login is refused.
C5_Witness ==
  \E d \in Devices, token \in DOMAIN remote :
    /\ ~remote[token].is_active
    /\ ~Falsy(remote[token].device_fingerprint)
    /\ Expired(remote[token], now)
    /\ \E local \in Codes :
         LET i == FindLocal(cache[d], local) IN
         /\ i # 0
         /\ ~cache[d][i].is_active
         /\ cache[d][i].device_fingerprint = getDeviceFingerprint(d)
         /\ Login(d, local, TRUE, "ok").result.kind = "Deactivated"

\* C6: an active token whose expires_at lies in the past is answered Expired
\* by the login route of the deployed server and by loginWithToken on every
\* device, however the request fares, including on the device it is bound to.
C6_ExpiredAlwaysDenied ==
  \A token \in DOMAIN remote :
    (remote[token].is_active /\ Expired(remote[token], now)) =>
      /\ \A f \in Fingerprints, confirm \in BOOLEAN :
           LoginWithTokenRoute(server, remote, now, token, f, confirm).res.kind = "Expired"
      /\ \A d \in Devices, confirm \in BOOLEAN, net \in Nets :
           Login(d, token, confirm, net).result.kind = "Expired"

\* The permanent denials of the remote authority.
Denials == {"InvalidCode", "Deactivated", "DeviceMismatch", "Expired"}

\* C7: when the remote authority answers a login with a permanent denial,
\* loginWithToken does not return an identity: the cache never turns the
\* denial into a successful login.
C7_RemoteDenialIsFinal ==
  \A d \in Devices, token \in TokenInputs, confirm \in BOOLEAN :
    LET r == Login(d, token, confirm, "ok")
    IN r.remote \in Denials => ~r.result.ok

\* C8: when the remote authority answers requires_binding, loginWithToken
\* throws BINDING_REQUIRED as the remote answer and does not run the local
\* fallback.
C8_BindingRequiredPropagates ==
  \A d \in Devices, token \in TokenInputs, confirm \in BOOLEAN :
    LET r == Login(d, token, confirm, "ok")
    IN r.remote = "RequiresBinding" =>
         (r.result = Err("BindingRequired", "remote") /\ ~r.localRan)

\* A cached record verifyLocalToken lets fingerprint f in with.
Usable(record, f, confirmBinding) ==
  /\ record.is_active
  /\ \/ record.device_fingerprint = f
     \/ Falsy(record.device_fingerprint) /\ confirmBinding

\* C9: when no answer of the remote authority reaches loginWithToken (the
\* client is offline, the request fails or times out), its outcome is the
\* outcome of verifyLocalToken on the cache; for a cached, active token bound
\* to this device, or unbound with confirmBinding, it returns the identity of
\* the cached record and stores it as the session.
C9_UnreachableFallsBackToCache ==
  \A d \in Devices, token \in TokenInputs, confirm \in BOOLEAN, net \in UnreachableNets :
    LET r == Login(d, token, confirm, net)
        v == verifyLocalToken(cache[d], token, getDeviceFingerprint(d), confirm)
        i == FindLocal(cache[d], token)
    IN /\ r.localRan
       /\ r.result = v.result
       /\ r.tokens = v.tokens
       /\ r.session = IF v.result.ok THEN <<v.result.user>> ELSE session[d]
       /\ (i # 0 /\ Usable(cache[d][i], getDeviceFingerprint(d), confirm)) =>
            /\ r.result = Ok(LocalUser(cache[d][i]), "local")
            /\ r.session = <<LocalUser(cache[d][i])>>
            /\ r.tokens[i].device_fingerprint = getDeviceFingerprint(d)

\* A device logged in with a token that only its cache holds, bound to it
\* there, while the remote authority is in use and does not know the code.
C9_Witness ==
  \E d \in Devices, token \in Codes :
    LET i == FindLocal(cache[d], token) IN
    /\ ~forceOffline
    /\ token \notin DOMAIN remote
    /\ i # 0
    /\ cache[d][i].is_active
    /\ cache[d][i].device_fingerprint = getDeviceFingerprint(d)
    /\ session[d] = <<LocalUser(cache[d][i])>>
    /\ Login(d, token, FALSE, "unreachable").result.ok

\* C10: a code an online login mirrored on a device, and that was not reset,
\* deactivated or deleted on that device since, lets the device in from the
\* cache whenever no answer of the remote authority reaches it.
C10_MirrorServesOffline ==
  \A d \in Devices : \A token \in mirrored[d] :
    \A confirm \in BOOLEAN, net \in UnreachableNets :
      LET r == Login(d, token, confirm, net)
      IN r.result.ok /\ r.result.origin = "local" /\ r.session = <<r.result.user>>

\* A device holds the mirror of a code the remote authority has since
\* deactivated, reset or deleted, and is let in with it offline.
C10_Witness ==
  \E d \in Devices : \E token \in mirrored[d] :
    /\ \/ token \notin DOMAIN remote
       \/ ~remote[token].is_active
       \/ remote[token].device_fingerprint # getDeviceFingerprint(d)
    /\ Login(d, token, FALSE, "offline").result.ok

\* The record of a code in a cache; the code is in the cache.
Cached(tokens, code) == tokens[CHOOSE i \in 1..Len(tokens) : tokens[i].token_code = code]

CachedCodes(tokens) == {tokens[i].token_code : i \in 1..Len(tokens)}

\* The step is an admin reset of the code.
ResetStep(code) ==
  \E d \in AdminDevices, net \in Nets : ResetTokenDevice(d, code, net)

\* The step generates a token on device d: a record of its code that the
\* cache held is replaced by the new token.
GenerationStep(d) ==
  \/ \E reference \in References, serverBody \in RandomBodies, localBody \in RandomBodies,
        net \in Nets : GenerateManualToken(d, reference, serverBody, localBody, net)
  \/ \E reference \in PaymentRefs, report \in GatewayReports, serverBody \in RandomBodies,
        localBody \in RandomBodies, net \in Nets :
       VerifyPaystackPayment(d, reference, report, serverBody, localBody, net)

\* A fingerprint before and after a step of the token it belongs to.
OneWay(before, after, code) ==
  ~Falsy(before) => (after = before \/ (after = Null /\ ResetStep(code)))

---------------------------------------------------------------------------
\* The login route between its awaits: the select of the row, the second
\* select of bindAccessCode, the update by id and the response are steps of
\* their own, and the requests of two devices interleave.

Request(stage, token, deviceFingerprint, confirm_binding, tokenData, kind) ==
  [stage |-> stage, token |-> token, deviceFingerprint |-> deviceFingerprint,
   confirm_binding |-> confirm_binding, tokenData |-> tokenData, kind |-> kind]

\* .select('*').eq('token_code', token).single(): <<>> or the row.
SelectRow(table, token) == IF token \in DOMAIN table THEN <<table[token]>> ELSE <<>>

\* The row a handler read, as the table its decisions are taken on.
Snapshot(tokenData) ==
  IF tokenData = <<>> THEN EmptyTable ELSE Insert(EmptyTable, tokenData[1])

\* .update({...}).eq('id', tokenData.id): the columns the handler set in the
\* row it read are written to the row the table holds now, whatever it holds.
UpdateById(table, token, read, written) ==
  IF token \notin DOMAIN table THEN table
  ELSE [c \in DOMAIN table |->
          IF c # token THEN table[c]
          ELSE [f \in DOMAIN table[c] |->
                  IF written[f] # read[f] THEN written[f] ELSE table[c][f]]]

\* Whether the route of ViteA, having read the row, calls bindAccessCode.
CallsBindAccessCode(q) ==
  /\ server = ViteA
  /\ q.tokenData # <<>>
  /\ q.tokenData[1].is_active
  /\ Falsy(q.tokenData[1].device_fingerprint)
  /\ q.confirm_binding

\* The tables a token was just created in, by the build's own route.
CreatedTables ==
  {IF srv = ViteA
     THEN createAccessCode(srv, EmptyTable, 0, body).table
     ELSE VerifyPaystackRoute(srv, EmptyTable, 0, ref, GatewayReports_Paid, body).table :
   srv \in {server}, body \in RandomBodies, ref \in PaymentRefs}

RaceInit ==
  /\ server \in Servers
  /\ client = AuthTs
  /\ forceOffline = FALSE
  /\ now = 0
  /\ remote \in CreatedTables
  /\ cache = [d \in Devices |-> <<>>]
  /\ session = [d \in Devices |-> <<>>]
  /\ mirrored = [d \in Devices |-> {}]
  /\ requests = [d \in Devices |-> <<>>]
  /\ listing = <<>>
  /\ store = [d \in Devices |-> EmptyStore]
  /\ calls = [d \in Devices |-> <<>>]

\* The request of device d arrives and the route selects the row.
LoginRead(d, token, confirm_binding) ==
  /\ requests[d] = <<>>
  /\ requests' = [requests EXCEPT ![d] =
       <<Request("read", token, getDeviceFingerprint(d), confirm_binding,
                 SelectRow(remote, token), "none")>>]
  /\ UNCHANGED <<store, calls, listing, server, client, forceOffline, now, remote, cache, session, mirrored>>

\* bindAccessCode selects the row again.
BindRead(d) ==
  /\ requests[d] # <<>>
  /\ requests[d][1].stage = "read"
  /\ CallsBindAccessCode(requests[d][1])
  /\ requests' = [requests EXCEPT ![d] =
       <<[requests[d][1] EXCEPT !.stage = "bind", !.tokenData = SelectRow(remote, requests[d][1].token)]>>]
  /\ UNCHANGED <<store, calls, listing, server, client, forceOffline, now, remote, cache, session, mirrored>>

\* The handler decides on the row it read, writes its update if it makes
\* one, and sends the response.
LoginWrite(d) ==
  /\ requests[d] # <<>>
  /\ LET q == requests[d][1]
         decision ==
           IF q.stage = "bind"
             THEN bindAccessCode(Snapshot(q.tokenData), now, q.token, q.deviceFingerprint)
             ELSE LoginWithTokenRoute(server, Snapshot(q.tokenData), now, q.token,
                                      q.deviceFingerprint, q.confirm_binding)
     IN /\ \/ q.stage = "read" /\ ~CallsBindAccessCode(q)
           \/ q.stage = "bind"
        /\ remote' = IF q.tokenData = <<>> THEN remote
                      ELSE UpdateById(remote, q.token, q.tokenData[1], decision.table[q.token])
        /\ requests' = [requests EXCEPT ![d] =
             <<[q EXCEPT !.stage = "done", !.kind = decision.res.kind]>>]
  /\ UNCHANGED <<store, calls, listing, server, client, forceOffline, now, cache, session, mirrored>>

\* The response reaches the device.
Receive(d) ==
  /\ requests[d] # <<>>
  /\ requests[d][1].stage = "done"
  /\ requests' = [requests EXCEPT ![d] = <<>>]
  /\ UNCHANGED <<store, calls, listing, server, client, forceOffline, now, remote, cache, session, mirrored>>

RaceNext ==
  \/ \E d \in Devices, token \in DOMAIN remote, confirm_binding \in BOOLEAN :
       LoginRead(d, token, confirm_binding)
  \/ \E d \in Devices : BindRead(d)
  \/ \E d \in Devices : LoginWrite(d)
  \/ \E d \in Devices : Receive(d)

SpecRace == RaceInit /\ [][RaceNext]_vars

\* The response a device holds to a confirmed bind of a token it read unbound.
BoundBy(d, token) ==
  /\ requests[d] # <<>>
  /\ requests[d][1].stage = "done"
  /\ requests[d][1].token = token
  /\ requests[d][1].confirm_binding
  /\ requests[d][1].kind = "Success"
  /\ Falsy(requests[d][1].tokenData[1].device_fingerprint)

\* C12: of two devices whose confirmed binds of an unbound token are handled
\* concurrently, at most one is answered with a success.
C12_AtMostOneBinds ==
  \A token \in DOMAIN remote : \A d1, d2 \in Devices :
    d1 # d2 => ~(BoundBy(d1, token) /\ BoundBy(d2, token))

\* The nets with which a request reaches the server.
ReachingNets == Nets \ {"offline", "unreachable"}

\* The remote half of C13: where resetTokenDevice of an admin device clears
\* the fingerprint of a bound, active, unexpired row, what the login route
\* answers fingerprint f2 before (when before is set) and after.
ResetRebindsRemote(before) ==
  \A code \in DOMAIN remote, f2 \in Fingerprints, d \in AdminDevices, net \in ReachingNets :
    LET row == remote[code]
        rs == resetTokenDevice(remote, cache[d], code, net)
        ask == LoginWithTokenRoute(server, rs.table, now, code, f2, FALSE)
        bind == LoginWithTokenRoute(server, rs.table, now, code, f2, TRUE)
    IN (/\ row.is_active /\ ~Expired(row, now)
        /\ ~Falsy(row.device_fingerprint) /\ row.device_fingerprint # f2
        /\ Falsy(rs.table[code].device_fingerprint))
       => /\ before =>
               \A confirm \in BOOLEAN :
                 LoginWithTokenRoute(server, remote, now, code, f2, confirm).res.kind
                   = "DeviceMismatch"
          /\ ask.res.kind = "RequiresBinding" /\ ask.table = rs.table
          /\ bind.res.kind = "Success" /\ bind.table[code].device_fingerprint = f2

\* The local half of C13, for the reset of a record in the cache of a device.
ResetRebindsLocal ==
  \A d \in Devices : \A code \in CachedCodes(cache[d]), f2 \in Fingerprints, net \in Nets :
    LET record == Cached(cache[d], code)
        rs == resetTokenDevice(remote, cache[d], code, net)
        ask == verifyLocalToken(rs.tokens, code, f2, FALSE)
        bind == verifyLocalToken(rs.tokens, code, f2, TRUE)
    IN (record.is_active /\ ~Falsy(record.device_fingerprint))
       => /\ record.device_fingerprint # f2 =>
               \A confirm \in BOOLEAN :
                 verifyLocalToken(cache[d], code, f2, confirm).result.kind = "DeviceMismatch"
          /\ ask.result.kind = "BindingRequired" /\ ask.tokens = rs.tokens
          /\ bind.result.ok /\ Cached(bind.tokens, code).device_fingerprint = f2

\* C13: a token bound to F1, active and unexpired, answers a verification
\* from another fingerprint F2 with DeviceMismatch; after an admin reset the
\* verification from F2 with confirmBinding succeeds and binds the token to
\* F2, and without confirmBinding it answers BindingRequired.
C13_ResetAllowsRebinding == ResetRebindsRemote(TRUE) /\ ResetRebindsLocal

\* C14: the reset of the device of a token sets its device_fingerprint and
\* its bound_at to null and leaves its expires_at, is_active and metadata,
\* and every other token, unchanged.
C14_ResetClearsFingerprintAndBoundAt ==
  \A code \in DOMAIN remote :
    LET reset == ResetTokenDeviceRoute(server, remote, code) IN
    reset.res.status = 200 =>
      /\ DOMAIN reset.table = DOMAIN remote
      /\ reset.table[code] = [remote[code] EXCEPT !.device_fingerprint = Null,
                                                  !.bound_at = NullTime]
      /\ \A other \in DOMAIN remote \ {code} : reset.table[other] = remote[other]

\* The cache of device d2 once deleteToken on device d has left tokens there.
CacheAfter(d, tokens, d2) == IF d2 = d THEN tokens ELSE cache[d2]

\* C15: once deleteToken(code) has completed successfully, loginWithToken
\* with that code succeeds on no device, online or through the cache of the
\* device, and no device lists the code.
C15_DeleteIsPermanent ==
  \A d \in AdminDevices : \A code \in Listed(d), net \in Nets :
    LET del == deleteToken(remote, cache[d], code, net) IN
    del.ok =>
      \A d2 \in Devices :
        /\ code \notin DOMAIN del.table \cup CachedCodes(CacheAfter(d, del.tokens, d2))
        /\ \A confirmBinding \in BOOLEAN, net2 \in Nets :
             ~loginWithToken(d2, del.table, CacheAfter(d, del.tokens, d2), session[d2],
                             code, confirmBinding, TRUE, net2).result.ok

\* The actor on device d has an identity of role admin.
IsAdmin(d) == session[d] # <<>> /\ session[d][1].role = "admin"

\* C16: toggleTokenStatus, resetTokenDevice and deleteToken change a token
\* (its is_active, its device_fingerprint, its existence), at the remote
\* table or in the cache, only when the actor's identity has role admin.
C16_AdminOnly ==
  \A d \in Devices : \A code \in Listed(d), net \in Nets :
    ~IsAdmin(d) =>
      /\ \A isActive \in BOOLEAN :
           LET r == toggleTokenStatus(remote, cache[d], code, isActive, net) IN
           r.table = remote /\ r.tokens = cache[d]
      /\ LET r == resetTokenDevice(remote, cache[d], code, net) IN
         r.table = remote /\ r.tokens = cache[d]
      /\ LET r == deleteToken(remote, cache[d], code, net) IN
         r.table = remote /\ r.tokens = cache[d]

---------------------------------------------------------------------------
\* The list of the admin screen: GET /api/admin/tokens (Part2) and
\* getAllTokens.  Here the rows and the records carry created_at.

\* .limit(50)
ListLimit == 50

\* new Date(undefined).getTime()
NaN == -2

\* A row or record with its created_at.
WithCreatedAt(record, created_at) == record @@ [created_at |-> created_at]

\* getRemainingDays: <<>> for null, else <<the time left>>.
getRemainingDays(expires_at, time) ==
  IF expires_at = NullTime THEN <<>> ELSE <<expires_at - time>>

\* status_message of a list item.
StatusMessage(token, time) ==
  LET remainingDays == getRemainingDays(token.expires_at, time) IN
  IF ~token.is_active THEN "Deactivated"
  ELSE IF token.expires_at = NullTime THEN "Lifetime"
  ELSE IF remainingDays[1] # 0 THEN "days remaining" ELSE "Expired"

\* The item the route makes of a row.
FormatToken(token, time) ==
  [token_code |-> token.token_code,
   is_active |-> token.is_active,
   bound |-> ~Falsy(token.device_fingerprint),
   bound_at |-> token.bound_at,
   expires_at |-> token.expires_at,
   remaining_days |-> getRemainingDays(token.expires_at, time),
   exam_type |-> OrElse(token.metadata.exam_type, "BOTH"),
   generated_by |-> OrElse(token.metadata.generated_by, "STUDENT"),
   status_message |-> StatusMessage(token, time)]

\* .order('created_at', { ascending: false }) over the rows of the codes:
\* a row stands after the rows created later.  (Rows are created at
\* different instants; the order of rows of one created_at is unspecified.)
OrderByCreatedAtDesc(table, codes) ==
  LET place == [c \in codes |->
                  1 + Cardinality({o \in codes : table[o].created_at > table[c].created_at})]
  IN [i \in 1..Cardinality(codes) |-> table[CHOOSE c \in codes : place[c] = i]]

\* .limit(n)
Limit(rows, n) == SubSeq(rows, 1, IF Len(rows) < n THEN Len(rows) ELSE n)

\* GET /api/admin/tokens (Part2): the reply and the array it carries.
ListTokensRoute(srv, table, time) ==
  IF srv # Part2 THEN NoRoute(table) @@ [body |-> <<>>]
  ELSE LET data == Limit(OrderByCreatedAtDesc(table, DOMAIN table), ListLimit) IN
       Reply(table, 200, "Success", NoUser)
         @@ [body |-> [i \in 1..Len(data) |-> FormatToken(data[i], time)]]

\* new Date(e.created_at).getTime()
GetTime(e) == IF "created_at" \in DOMAIN e THEN e.created_at ELSE NaN

\* The comparator of getAllTokens; sort takes a NaN result for +0.
CompareCreatedAt(a, b) ==
  IF GetTime(a) = NaN \/ GetTime(b) = NaN THEN 0 ELSE GetTime(b) - GetTime(a)

\* Whether the comparator is consistent over the entries (ECMAScript,
\* Array.prototype.sort): its "equal" has to be transitive.
ConsistentComparator(entries) ==
  \A i, j, k \in 1..Len(entries) :
    (CompareCreatedAt(entries[i], entries[j]) = 0 /\ CompareCreatedAt(entries[j], entries[k]) = 0)
      => CompareCreatedAt(entries[i], entries[k]) = 0

\* The stable sort of the entries under a consistent comparator: an entry
\* stands after those that sort before it and after its equals that came
\* before it.
StableSort(entries) ==
  LET place == [i \in 1..Len(entries) |->
                  1 + Cardinality({j \in 1..Len(entries) :
                         \/ CompareCreatedAt(entries[j], entries[i]) < 0
                         \/ CompareCreatedAt(entries[j], entries[i]) = 0 /\ j < i})]
  IN [k \in 1..Len(entries) |-> entries[CHOOSE i \in 1..Len(entries) : place[i] = k]]

\* What combined.sort(comparator) can leave: the stable order under a
\* consistent comparator, an implementation-defined order of the same
\* entries otherwise.
SortOutcomes(entries) ==
  IF ConsistentComparator(entries) THEN {StableSort(entries)}
  ELSE {[i \in 1..Len(entries) |-> entries[p[i]]] : p \in Permutations(1..Len(entries))}

\* combined after the forEach over the local tokens.
RECURSIVE Combine(_, _)
Combine(combined, localTokens) ==
  IF localTokens = <<>> THEN combined
  ELSE LET local == Head(localTokens) IN
       Combine(IF \E i \in 1..Len(combined) : combined[i].token_code = local.token_code
                 THEN combined ELSE Append(combined, local),
               Tail(localTokens))

\* getAllTokens: whether the list of the server arrived, and the arrays that
\* can be returned.
getAllTokens(table, tokens, time, net) ==
  LET route == ListTokensRoute(server, table, time)
      api == apiRequest(net, table, route)
      onlineTokens == IF api.ok THEN route.body ELSE <<>>
  IN [online |-> api.ok, entries |-> SortOutcomes(Combine(onlineTokens, tokens))]

\* The longest cache listed.
MaxLocal == 2

\* The i-th code of a listed table, created at time i.
ListCode(i) == "ACE-" \o ToString(i)

\* The numbers of rows of the listed tables.
ListSizes == {0, 1, 2, ListLimit, ListLimit + 1}

\* The clock when the list is asked for, after every row was created.
ListNow == ListLimit + 2

\* A table of n rows as the admin route of the build creates them.
ListTable(srv, n) ==
  [c \in {ListCode(i) : i \in 1..n} |->
     LET i == CHOOSE i \in 1..n : ListCode(i) = c IN
     WithCreatedAt(Row(c, TRUE, Null, NullTime, NewExpiry(srv, i), FALSE,
                       Metadata("MANUAL", ExamType, FullName, "ADMIN")), i)]

\* created_at of the cached records: before and after the rows of the table.
LocalTimes == {0, ListNow}

\* The records of a listed cache: the mirror of the oldest code of the
\* table, as an online login leaves it and toggleTokenStatus may change it,
\* and a token generated on the device.
LocalRecords ==
  {WithCreatedAt([MirrorToken(ListCode(1), getDeviceFingerprint(d),
                                RouteUser(ListTable(ServerJs, 1)[ListCode(1)]))
                    EXCEPT !.is_active = isActive], t) :
     d \in AdminDevices, isActive \in BOOLEAN, t \in LocalTimes}
  \cup {WithCreatedAt(TokenInfo(generateSecureToken(prefix, body), TRUE, Null,
                                Metadata("MANUAL", ExamType, FullName, "ADMIN")), t) :
          prefix \in {"LOCAL", "OFFLINE"}, body \in RandomBodies, t \in LocalTimes}

\* The caches saveLocalToken can leave: one record per code, the record
\* saved last in front.
ListCaches ==
  {tokens \in UNION {[1..len -> LocalRecords] : len \in 0..MaxLocal} :
     \A i, j \in 1..Len(tokens) :
       i < j => /\ tokens[i].token_code # tokens[j].token_code
                /\ tokens[i].created_at >= tokens[j].created_at}

\* The builds the list is asked of: with the route, without it, and the
\* client that asks no server.
ListDeployments == {<<Part2, AuthTs, FALSE>>, <<ServerJs, AuthTs, FALSE>>, <<ServerJs, AuthTs, TRUE>>}

ListInit ==
  /\ \E dep \in ListDeployments :
       server = dep[1] /\ client = dep[2] /\ forceOffline = dep[3]
  /\ now = ListNow
  /\ \E n \in ListSizes : remote = ListTable(server, n)
  /\ \E tokens \in ListCaches :
       /\ Cardinality(DOMAIN remote) >= ListLimit => Len(tokens) <= 1
       /\ cache = [d \in Devices |-> IF d \in AdminDevices THEN tokens ELSE <<>>]
  /\ session = [d \in Devices |-> <<>>]
  /\ mirrored = [d \in Devices |-> {}]
  /\ requests = [d \in Devices |-> <<>>]
  /\ listing = <<>>
  /\ store = [d \in Devices |-> EmptyStore]
  /\ calls = [d \in Devices |-> <<>>]

\* The admin screen of device d loads its list.
GetAllTokens(d, net) ==
  LET r == getAllTokens(remote, cache[d], now, net) IN
  /\ \E entries \in r.entries :
       listing' = <<[device |-> d, online |-> r.online, entries |-> entries]>>
  /\ UNCHANGED <<store, calls, server, client, forceOffline, now, remote, cache, session,
                 mirrored, requests>>

ListNext == \E d \in AdminDevices, net \in Nets : GetAllTokens(d, net)

SpecList == ListInit /\ [][ListNext]_vars

\* The places of the listed entries.
Places == IF listing = <<>> THEN {} ELSE 1..Len(listing[1].entries)

\* The entry at a place of the list.
Entry(i) == listing[1].entries[i]

\* C17: no two entries of a result of getAllTokens have the same token
\* code, and, the list of the server having arrived, the entry of a code
\* that is both in the remote table and in the cache is the item of the
\* remote row, not the cached record.
C17_ListMergesRemoteFirst ==
  /\ \A i, j \in Places : Entry(i).token_code = Entry(j).token_code => i = j
  /\ \A i \in Places :
       (/\ listing[1].online
        /\ Entry(i).token_code \in DOMAIN remote
        /\ Entry(i).token_code \in CachedCodes(cache[listing[1].device]))
       => Entry(i) = FormatToken(remote[Entry(i).token_code], now)

\* The time the token of an entry was created: the entry's created_at, or
\* that of the remote row where the item of the route carries none.
CreatedAt(e) == IF "created_at" \in DOMAIN e THEN e.created_at ELSE remote[e.token_code].created_at

\* C18: getAllTokens returns its entries in the order of created_at, newest
\* first, whatever the remote and the local tokens are and whether or not
\* the list of the server arrived.
C18_ListNewestFirst ==
  \A i, j \in Places : i < j => CreatedAt(Entry(i)) >= CreatedAt(Entry(j))

\* bound_at of a row or record is set.
HasBoundAt(token) == "bound_at" \in DOMAIN token /\ token.bound_at # NullTime

\* C19: the first bind writes device_fingerprint and bound_at together, and
\* at the remote table expires_at too: a row or a cached record with a
\* device_fingerprint has a bound_at, and a bound row has an expires_at.
C19_BoundHasBoundAtAndExpiry ==
  /\ \A code \in DOMAIN remote :
       ~Falsy(remote[code].device_fingerprint)
         => HasBoundAt(remote[code]) /\ remote[code].expires_at # NullTime
  /\ \A d \in Devices : \A i \in 1..Len(cache[d]) :
       ~Falsy(cache[d][i].device_fingerprint) => HasBoundAt(cache[d][i])

\* The gateway reports a successful payment of the minimum amount or more.
Paid(report) == report.status = "success" /\ report.amount >= MinAmount

\* C20: when the gateway reports a failed payment or an amount below the
\* minimum for the reference, verifyPaystackPayment creates no token in the
\* remote table or in the cache and changes nothing else; the only code
\* it can return is one issued for the reference before.
C20_NoTokenWithoutPayment ==
  \A d \in Devices, reference \in PaymentRefs, report \in GatewayReports :
    \A serverBody \in RandomBodies, localBody \in RandomBodies, net \in Nets :
      LET r == verifyPaystackPayment(remote, cache[d], reference, report,
                                     serverBody, localBody, net) IN
      ~Paid(report) =>
        /\ r.table = remote
        /\ r.tokens = cache[d]
        /\ r.ok => r.token \in RowsOfReference(remote, reference)

---------------------------------------------------------------------------
\* The session: loginUser, loginWithToken, logoutUser and getCurrentUser.

\* sha256(message): the digest of a password is not the password.
sha256(message) == <<"sha256", message>>

Usernames == {"admin", "ADMIN", "S1"}

Passwords == {"admin", "secret"}

Roles == {"student", "admin"}

\* String.prototype.toLowerCase on the user names of the model.
ToLowerCase(s) == IF s = "ADMIN" THEN "admin" ELSE s

\* The users table of the remote authority: an admin and the student the
\* register route inserts (vite.config.ts 190-197).  No modelled handler
\* writes it.
UsersTable ==
  {[username |-> "admin", role |-> "admin", password |-> "admin",
    full_name |-> "System Administrator", reg_number |-> Null, allowed_exam_type |-> Null],
   [username |-> "S1", role |-> "student", password |-> Null,
    full_name |-> FullName, reg_number |-> "S1", allowed_exam_type |-> "BOTH"]}

\* const { password: _, ...userInfo } = user
UserInfo(user) == [f \in DOMAIN user \ {"password"} |-> user[f]]

\* POST /api/auth/login (ViteA, Part2)
LoginRoute(srv, table, username, password, role) ==
  IF srv \notin {ViteA, Part2} THEN NoRoute(table)
  ELSE LET rows == {u \in UsersTable : u.username = username /\ u.role = role} IN
    IF Cardinality(rows) # 1 THEN Reply(table, 401, "InvalidCredentials", NoUser)
    ELSE LET user == CHOOSE u \in rows : TRUE IN
      IF user.password # password THEN Reply(table, 401, "InvalidCredentials", NoUser)
      ELSE Reply(table, 200, "Success", UserInfo(user))

\* The User saveLocalStudent stores for registerStudent under FORCE_OFFLINE.
LocalStudent(fullName, regNumber) ==
  [username |-> regNumber, role |-> "student", fullName |-> fullName, regNumber |-> regNumber]

\* adminUser of loginUser
AdminUser(username) ==
  [username |-> username, role |-> "admin", fullName |-> "System Administrator",
   regNumber |-> "ADMIN-001"]

\* The credentials the offline admin login compares with, and what it leaves
\* in LOCAL_ADMIN_KEY: auth.ts stores the hashed default on first use and
\* compares digests, part_000 compares the password as typed.
AdminCredentials(build, stored) ==
  IF stored # <<>> THEN stored[1]
  ELSE [username |-> "admin",
        password |-> IF build = AuthTs THEN sha256("admin") ELSE <<"plain", "admin">>]

Typed(build, password) == IF build = AuthTs THEN sha256(password) ELSE <<"plain", password>>

\* users.find(u => u.username === username): <<>> or <<the first>>.
FindStudent(users, username) ==
  LET at == {i \in 1..Len(users) : users[i].username = username} IN
  IF at = {} THEN <<>> ELSE <<users[CHOOSE i \in at : \A j \in at : i <= j]>>

\* JSON.parse(JSON.stringify(user)): the keys whose value is undefined are
\* not written.
JsonRoundTrip(user) == [f \in {g \in DOMAIN user : user[g] # Undefined} |-> user[f]]

\* setItem that stores the identity that was there before.
setCurrentUserNotStored(sess, user) == sess

\* localStorage.setItem(CURRENT_USER_KEY, JSON.stringify(user)), as
\* getCurrentUser reads it back.
setCurrentUser(sess, user) == <<JsonRoundTrip(user)>>

\* loginUser on a device: the store and the session it leaves, whether a
\* request was sent, and the identity returned or the error thrown.
loginUser(table, st, sess, username, password, role, net) ==
  IF role = "admin" /\ forceOffline THEN
    LET creds == AdminCredentials(client, st.admin)
        left == IF client = AuthTs /\ st.admin = <<>>
                  THEN [st EXCEPT !.admin = <<creds>>] ELSE st
    IN IF /\ ToLowerCase(username) = ToLowerCase(creds.username)
          /\ Typed(client, password) = creds.password
         THEN [store |-> left, session |-> setCurrentUser(sess, AdminUser(creds.username)),
               sent |-> FALSE,
               ok |-> TRUE, kind |-> "Identity", user |-> <<AdminUser(creds.username)>>]
         ELSE [store |-> left, session |-> sess, sent |-> FALSE,
               ok |-> FALSE, kind |-> "InvalidCredentials", user |-> <<>>]
  ELSE IF role = "student" /\ forceOffline THEN
    LET user == FindStudent(st.users, username) IN
    IF user # <<>>
      THEN [store |-> st, session |-> setCurrentUser(sess, user[1]), sent |-> FALSE,
            ok |-> TRUE, kind |-> "Identity", user |-> user]
      ELSE [store |-> st, session |-> sess, sent |-> FALSE,
            ok |-> FALSE, kind |-> "StudentNotFound", user |-> <<>>]
  ELSE LET api == apiRequest(net, table, LoginRoute(server, table, username, password, role)) IN
    IF api.ok
      THEN [store |-> st, session |-> setCurrentUser(sess, api.user), sent |-> api.sent,
            ok |-> TRUE, kind |-> "Identity", user |-> <<api.user>>]
      ELSE [store |-> st, session |-> sess, sent |-> api.sent,
            ok |-> FALSE, kind |-> api.kind, user |-> <<>>]

\* getCurrentUser: <<>> for null, else <<the parsed identity>>.
getCurrentUser(sess) == sess

\* The builds a user logs in on: those of Deployments and the second client
\* build with FORCE_OFFLINE set.
SessionDeployments == Deployments \cup {<<Part2, Part0, TRUE>>}

\* LOCAL_USERS_KEY as registerStudent leaves it under FORCE_OFFLINE.
LocalStudents == {<<>>, <<LocalStudent(FullName, "S1")>>}

SessionInit ==
  /\ \E dep \in SessionDeployments :
       server = dep[1] /\ client = dep[2] /\ forceOffline = dep[3]
  /\ now = 0
  /\ remote \in CreatedTables
  /\ cache = [d \in Devices |-> <<>>]
  /\ session = [d \in Devices |-> <<>>]
  /\ mirrored = [d \in Devices |-> {}]
  /\ requests = [d \in Devices |-> <<>>]
  /\ listing = <<>>
  /\ \E users \in LocalStudents :
       store = [d \in Devices |-> IF forceOffline THEN [EmptyStore EXCEPT !.users = users]
                                                  ELSE EmptyStore]
  /\ calls = [d \in Devices |-> <<>>]

\* loginUser that leaves the administrator logged in when it fails.
LoginUserFailingOpen(d, username, password, role, net) ==
  LET r == loginUser(remote, store[d], session[d], username, password, role, net) IN
  /\ store' = [store EXCEPT ![d] = r.store]
  /\ session' = [session EXCEPT ![d] = IF r.ok THEN r.session ELSE <<AdminUser(username)>>]
  /\ UNCHANGED <<calls, listing, requests, server, client, forceOffline, now, remote, cache,
                 mirrored>>

\* A user of device d logs in with a name and a password.
LoginUser(d, username, password, role, net) ==
  LET r == loginUser(remote, store[d], session[d], username, password, role, net) IN
  /\ store' = [store EXCEPT ![d] = r.store]
  /\ session' = [session EXCEPT ![d] = r.session]
  /\ UNCHANGED <<calls, listing, requests, server, client, forceOffline, now, remote, cache,
                 mirrored>>

SessionNext ==
  \/ \E d \in Devices, in \in LoginInputs : LoginWithToken(d, in[1], in[2], in[3], in[4])
  \/ \E d \in Devices, username \in Usernames, password \in Passwords, role \in Roles,
        net \in Nets : LoginUser(d, username, password, role, net)
  \/ \E d \in Devices : LogoutUser(d)
  \/ \E d \in AdminDevices, reference \in References, serverBody \in RandomBodies,
        localBody \in RandomBodies, net \in Nets :
       GenerateManualToken(d, reference, serverBody, localBody, net)

SpecSession == SessionInit /\ [][SessionNext]_vars

\* The successful results of loginWithToken and loginUser on device d in
\* the current state: the session each leaves.
LoginSessions(d) ==
  {loginWithToken(d, remote, cache[d], session[d], in[1], in[2], in[3], in[4]).session :
     in \in {i \in LoginInputs :
               loginWithToken(d, remote, cache[d], session[d], i[1], i[2], i[3], i[4]).result.ok}}
  \cup {loginUser(remote, store[d], session[d], in[1], in[2], in[3], in[4]).session :
          in \in {i \in Usernames \X Passwords \X Roles \X Nets :
                    loginUser(remote, store[d], session[d], i[1], i[2], i[3], i[4]).ok}}

\* C21: after a successful loginWithToken or loginUser, on the online path,
\* the offline fallback and under FORCE_OFFLINE, getCurrentUser returns the
\* identity the call returned.
C21_SessionIsReturnedIdentity ==
  \A d \in Devices :
    /\ \A in \in LoginInputs :
         LET r == loginWithToken(d, remote, cache[d], session[d], in[1], in[2], in[3], in[4]) IN
         r.result.ok => getCurrentUser(r.session) = <<r.result.user>>
    /\ \A username \in Usernames, password \in Passwords, role \in Roles, net \in Nets :
         LET r == loginUser(remote, store[d], session[d], username, password, role, net) IN
         r.ok => getCurrentUser(r.session) = r.user

\* An administrator and a token holder are logged in, each with the identity
\* a login of theirs returns.
C21_Witness ==
  \E d1, d2 \in Devices :
    /\ session[d1] # <<>> /\ session[d1][1].role = "admin"
    /\ \E username \in Usernames, password \in Passwords, net \in Nets :
         LET r == loginUser(remote, store[d1], session[d1], username, password, "admin", net) IN
         r.ok /\ r.user = session[d1]
    /\ session[d2] # <<>> /\ session[d2][1].role = "student"
    /\ \E in \in LoginInputs :
         LET r == loginWithToken(d2, remote, cache[d2], session[d2], in[1], in[2], in[3], in[4]) IN
         r.result.ok /\ <<r.result.user>> = session[d2]

\* C22: the stored identity changes only by a successful login, which sets
\* it to the identity returned, or by logoutUser, which clears it; a login
\* that fails, BindingRequired included, leaves it as it was.
C22_SessionChangesByLoginOrLogout ==
  [][\A d \in Devices :
       /\ \A in \in LoginInputs :
            LET r == loginWithToken(d, remote, cache[d], session[d], in[1], in[2], in[3], in[4]) IN
            ~r.result.ok => r.session = session[d]
       /\ \A username \in Usernames, password \in Passwords, role \in Roles, net \in Nets :
            LET r == loginUser(remote, store[d], session[d], username, password, role, net) IN
            ~r.ok => r.session = session[d]
       /\ LogoutUser(d) => getCurrentUser(session'[d]) = <<>>
       /\ session'[d] # session[d] =>
            \/ session'[d] \in LoginSessions(d)
            \/ session'[d] = <<>> /\ LogoutUser(d)]_vars

\* A login was refused with BindingRequired on a device that stays logged
\* in, and another device is logged out again.
C22_Witness ==
  \E d1, d2 \in Devices :
    /\ session[d1] # <<>>
    /\ \E in \in LoginInputs :
         LET r == loginWithToken(d1, remote, cache[d1], session[d1], in[1], in[2], in[3], in[4]) IN
         r.result.kind = "BindingRequired" /\ r.session = session[d1]
    /\ session[d2] = <<>> /\ cache[d2] # <<>>

\* ---------------------------------------------------------------------
\* Timers: the calls of the client at the grain of their awaits.
\* ---------------------------------------------------------------------

\* withTimeout(getDeviceFingerprint(), 10000, ...)
DeviceIdentityTimeout == 10000

\* fetchWithTimeout(url, options, 5000)
FetchTimeout == 5000

\* withTimeout(apiRequest(...), 5000)
RequestTimeout == 5000

\* setTimeout: of two armed timers, whether the one armed first, with delay
\* first, runs before the one armed after it, with delay second.
FiresFirst(first, second) == first <= second

TimerStates == {"unset", "armed", "fired", "cleared"}

\* The states of a fetch: not issued; issued and without response headers;
\* headers received and the body being read by res.json(); body read;
\* response left unread; aborted by the controller; failed in transport.
FetchStates == {"none", "pending", "headers", "body", "unread", "aborted", "failed"}

\* A call as it starts: nothing armed, nothing issued.
NewCall(op, token, flag) ==
  [op |-> op, token |-> token, flag |-> flag, pc |-> "start", online |-> TRUE,
   fpTimer |-> "unset", abortTimer |-> "unset", outerTimer |-> "unset",
   fetch |-> "none", reply |-> <<>>, timedOut |-> FALSE, localRan |-> FALSE,
   result |-> <<>>]

\* clearTimeout: an armed timer is cleared, any other is left as it is.
clearTimeout(timer) == IF timer = "armed" THEN "cleared" ELSE timer

\* The codes submitted in the timed calls.
TimerTokens == {generateSecureToken("ACE", b) : b \in RandomBodies}

\* The call of device d that is awaiting something.
Awaiting(d) == calls[d] # <<>> /\ calls[d][1].pc # "done"

\* The call c of device d ends by throwing to its caller.
Throw(d, c, error) ==
  /\ calls' = [calls EXCEPT ![d] = <<[c EXCEPT !.pc = "done", !.result = <<error>>]>>]
  /\ UNCHANGED <<cache, session, mirrored>>

\* The tail of loginWithToken for the call c of device d (auth.ts 201-203).
RunLocal(d, c) ==
  LET r == LoginLocal(remote, cache[d], session[d], c.token, getDeviceFingerprint(d), c.flag,
                      c.fetch # "none", "none") IN
  /\ cache' = [cache EXCEPT ![d] = r.tokens]
  /\ session' = [session EXCEPT ![d] = r.session]
  /\ calls' = [calls EXCEPT ![d] = <<[c EXCEPT !.pc = "done", !.localRan = TRUE,
                                              !.result = <<r.result>>]>>]
  /\ UNCHANGED mirrored

\* apiRequest rejects in the call c of device d: loginWithToken catches the
\* error and goes on locally, the other callers get it.
Rejected(d, c, kind) ==
  IF c.op = "loginWithToken" THEN RunLocal(d, c) ELSE Throw(d, c, Err(kind, "remote"))

\* apiRequest that issues the fetch without looking at navigator.onLine or
\* FORCE_OFFLINE.
IssueRequestUnconditionally(c, online, guarded) ==
  [c EXCEPT !.online = online, !.pc = "request", !.fetch = "pending", !.abortTimer = "armed",
            !.outerTimer = IF guarded THEN "armed" ELSE "unset"]

\* apiRequest up to its first await: it throws when the browser is offline
\* or FORCE_OFFLINE is set, else fetchWithTimeout arms its timer and
\* issues the fetch; withTimeout (guarded: loginWithToken only) then arms its
\* own timer.
IssueRequest(c, online, guarded) ==
  IF forceOffline \/ ~online
    THEN [c EXCEPT !.online = online]
  ELSE [c EXCEPT !.pc = "request", !.fetch = "pending", !.abortTimer = "armed",
                 !.outerTimer = IF guarded THEN "armed" ELSE "unset"]

\* loginWithToken is called on device d: it arms the timer of the device
\* fingerprint and awaits it.
CallLoginWithToken(d, token, confirmBinding) ==
  /\ ~Awaiting(d)
  /\ calls' = [calls EXCEPT ![d] =
                 <<[NewCall("loginWithToken", token, confirmBinding)
                      EXCEPT !.pc = "fingerprint", !.fpTimer = "armed"]>>]
  /\ UNCHANGED <<store, listing, requests, server, client, forceOffline, now, remote, cache,
                 session, mirrored>>

\* getDeviceFingerprint resolves: the call goes on to the request, or to
\* the local path when no request is made.
FingerprintResolves(d, online) ==
  /\ Awaiting(d) /\ calls[d][1].pc = "fingerprint"
  /\ LET c == IssueRequest([calls[d][1] EXCEPT !.fpTimer = "cleared"], online, TRUE) IN
     IF c.fetch = "pending"
       THEN calls' = [calls EXCEPT ![d] = <<c>>] /\ UNCHANGED <<cache, session, mirrored>>
     ELSE RunLocal(d, c)
  /\ UNCHANGED <<store, listing, requests, server, client, forceOffline, now, remote>>

\* getDeviceFingerprint rejects.
FingerprintRejects(d) ==
  /\ Awaiting(d) /\ calls[d][1].pc = "fingerprint"
  /\ Throw(d, [calls[d][1] EXCEPT !.fpTimer = "cleared"], Err("DeviceIdentity", "client"))
  /\ UNCHANGED <<store, listing, requests, server, client, forceOffline, now, remote>>

\* The timer of the fingerprint fires and the call goes on with the empty
\* fingerprint it started with.
FingerprintTimerFiresUnguarded(d) ==
  /\ Awaiting(d) /\ calls[d][1].pc = "fingerprint" /\ calls[d][1].fpTimer = "armed"
  /\ RunLocal(d, [calls[d][1] EXCEPT !.fpTimer = "fired"])
  /\ UNCHANGED <<store, listing, requests, server, client, forceOffline, now, remote>>

\* The timer of the fingerprint fires before getDeviceFingerprint settles.
FingerprintTimerFires(d) ==
  /\ Awaiting(d) /\ calls[d][1].pc = "fingerprint" /\ calls[d][1].fpTimer = "armed"
  /\ Throw(d, [calls[d][1] EXCEPT !.fpTimer = "fired"], Err("DeviceIdentity", "client"))
  /\ UNCHANGED <<store, listing, requests, server, client, forceOffline, now, remote>>

\* toggleTokenStatus is called on device d: the local update, then
\* apiRequest with no timer of the caller's.
CallToggleTokenStatus(d, tokenCode, isActive, online) ==
  /\ ~Awaiting(d)
  /\ cache' = [cache EXCEPT ![d] = updateLocalToken(@, tokenCode, [is_active |-> isActive])]
  /\ LET c == IssueRequest(NewCall("toggleTokenStatus", tokenCode, isActive), online, FALSE) IN
     calls' = [calls EXCEPT ![d] =
       IF forceOffline
         THEN <<[c EXCEPT !.pc = "done", !.result = <<Ok(NoUser, "local")>>]>>
       ELSE IF c.fetch = "pending" THEN <<c>>
       ELSE <<[c EXCEPT !.pc = "done", !.result = <<Err("NetworkOffline", "remote")>>]>>]
  /\ UNCHANGED <<store, listing, requests, server, client, forceOffline, now, remote, session,
                 mirrored>>

\* What answers the request of the call c: the route of the deployed build,
\* or something between the client and it that answers 200 with a page.
Answer(d, c, contentType) ==
  IF contentType = "text/html" THEN Reply(remote, 200, "NonJson", NoUser)
  ELSE IF c.op = "loginWithToken"
    THEN LoginWithTokenRoute(server, remote, now, c.token, getDeviceFingerprint(d), c.flag)
  ELSE TokenStatusRoute(server, remote, c.token, c.flag)

\* The response headers arrive: fetch resolves, fetchWithTimeout clears its
\* timer, apiRequest throws on a content type that is not JSON and else
\* awaits res.json().
HeadersArrive(d, contentType) ==
  /\ calls[d] # <<>> /\ calls[d][1].fetch = "pending"
  /\ LET c == calls[d][1]
         reply == Answer(d, c, contentType)
     IN
     /\ remote' = reply.table
     /\ IF reply.res.kind = "NonJson"
          THEN Rejected(d, [c EXCEPT !.fetch = "unread", !.abortTimer = "cleared",
                                     !.outerTimer = clearTimeout(@)], "NonJson")
        ELSE /\ calls' = [calls EXCEPT ![d] =
                            <<[c EXCEPT !.fetch = "headers", !.abortTimer = "cleared",
                                        !.reply = <<reply.res>>]>>]
             /\ UNCHANGED <<cache, session, mirrored>>
  /\ UNCHANGED <<store, listing, requests, server, client, forceOffline, now>>

\* The body arrives and the continuation of loginWithToken runs on it even
\* when withTimeout has already rejected the call.
BodyArrivesSettlingTwice(d) ==
  /\ calls[d] # <<>> /\ calls[d][1].fetch = "headers"
  /\ LET c == [calls[d][1] EXCEPT !.fetch = "body", !.outerTimer = clearTimeout(@)]
         res == c.reply[1]
     IN
     IF res.status # 200 THEN Rejected(d, c, res.kind)
     ELSE IF c.op # "loginWithToken" THEN Throw(d, c, Ok(NoUser, "remote"))
     ELSE IF res.kind = "RequiresBinding"
       THEN IF RethrowsBindingRequired(client)
              THEN Throw(d, c, Err("BindingRequired", "remote"))
            ELSE RunLocal(d, c)
     ELSE /\ cache' = [cache EXCEPT ![d] =
                         saveLocalToken(@, MirrorToken(c.token, getDeviceFingerprint(d), res.user))]
          /\ session' = [session EXCEPT ![d] = <<res.user>>]
          /\ mirrored' = [mirrored EXCEPT ![d] = @ \cup {c.token}]
          /\ calls' = [calls EXCEPT ![d] =
                         <<[c EXCEPT !.pc = "done", !.result = <<Ok(res.user, "remote")>>]>>]
  /\ UNCHANGED <<store, listing, requests, server, client, forceOffline, now, remote>>

\* The body arrives and res.json() resolves: apiRequest returns the data or
\* throws on a status that is not a success; a caller that was already
\* given the timeout of withTimeout does not see either.
BodyArrives(d) ==
  /\ calls[d] # <<>> /\ calls[d][1].fetch = "headers"
  /\ LET c == [calls[d][1] EXCEPT !.fetch = "body", !.outerTimer = clearTimeout(@)]
         res == c.reply[1]
     IN
     IF c.pc = "done"
       THEN calls' = [calls EXCEPT ![d] = <<c>>] /\ UNCHANGED <<cache, session, mirrored>>
     ELSE IF res.status # 200 THEN Rejected(d, c, res.kind)
     ELSE IF c.op # "loginWithToken" THEN Throw(d, c, Ok(NoUser, "remote"))
     ELSE IF res.kind = "RequiresBinding"
       THEN IF RethrowsBindingRequired(client)
              THEN Throw(d, c, Err("BindingRequired", "remote"))
            ELSE RunLocal(d, c)
     ELSE /\ cache' = [cache EXCEPT ![d] =
                         saveLocalToken(@, MirrorToken(c.token, getDeviceFingerprint(d), res.user))]
          /\ session' = [session EXCEPT ![d] = <<res.user>>]
          /\ mirrored' = [mirrored EXCEPT ![d] = @ \cup {c.token}]
          /\ calls' = [calls EXCEPT ![d] =
                         <<[c EXCEPT !.pc = "done", !.result = <<Ok(res.user, "remote")>>]>>]
  /\ UNCHANGED <<store, listing, requests, server, client, forceOffline, now, remote>>

\* fetch rejects with a transport error.
FetchFails(d) ==
  /\ calls[d] # <<>> /\ calls[d][1].fetch = "pending"
  /\ Rejected(d, [calls[d][1] EXCEPT !.fetch = "failed", !.abortTimer = "cleared",
                                     !.outerTimer = clearTimeout(@)], "Transport")
  /\ UNCHANGED <<store, listing, requests, server, client, forceOffline, now, remote>>

\* The timer of fetchWithTimeout fires: controller.abort() ends the fetch
\* and the caller gets the AbortError.
AbortTimerFires(d) ==
  /\ calls[d] # <<>> /\ calls[d][1].fetch = "pending" /\ calls[d][1].abortTimer = "armed"
  /\ Rejected(d, [calls[d][1] EXCEPT !.fetch = "aborted", !.abortTimer = "fired",
                                     !.outerTimer = clearTimeout(@), !.timedOut = TRUE],
              "Timeout")
  /\ UNCHANGED <<store, listing, requests, server, client, forceOffline, now, remote>>

\* The timer of withTimeout fires and nothing rejects the caller.
OuterTimerFiresUnheard(d) ==
  /\ Awaiting(d) /\ calls[d][1].outerTimer = "armed"
  /\ calls[d][1].abortTimer = "armed" => ~FiresFirst(FetchTimeout, RequestTimeout)
  /\ calls' = [calls EXCEPT ![d] = <<[calls[d][1] EXCEPT !.outerTimer = "fired"]>>]
  /\ UNCHANGED <<store, listing, requests, server, client, forceOffline, now, remote, cache,
                 session, mirrored>>

\* The timer of withTimeout fires: the caller is rejected with "Timeout";
\* nothing is done to the promise it was waiting for.
OuterTimerFires(d) ==
  /\ Awaiting(d) /\ calls[d][1].outerTimer = "armed"
  /\ calls[d][1].abortTimer = "armed" => ~FiresFirst(FetchTimeout, RequestTimeout)
  /\ Rejected(d, [calls[d][1] EXCEPT !.outerTimer = "fired", !.timedOut = TRUE], "Timeout")
  /\ UNCHANGED <<store, listing, requests, server, client, forceOffline, now, remote>>

\* The caches the timed calls start with: empty, or holding a token
\* generated on the device.
TimerCaches == {<<>>} \cup {generateLocalTokenImmediate(<<>>, Null, b) : b \in RandomBodies}

ContentTypes == {"application/json", "text/html"}

TimerInit ==
  /\ \E dep \in SessionDeployments :
       server = dep[1] /\ client = dep[2] /\ forceOffline = dep[3]
  /\ now = 0
  /\ remote \in CreatedTables
  /\ cache \in [Devices -> TimerCaches]
  /\ session = [d \in Devices |-> <<>>]
  /\ mirrored = [d \in Devices |-> {}]
  /\ requests = [d \in Devices |-> <<>>]
  /\ listing = <<>>
  /\ store = [d \in Devices |-> EmptyStore]
  /\ calls = [d \in Devices |-> <<>>]

TimerNext ==
  \/ \E d \in Devices \ AdminDevices, token \in TimerTokens, confirmBinding \in BOOLEAN :
       CallLoginWithToken(d, token, confirmBinding)
  \/ \E d \in Devices, online \in BOOLEAN : FingerprintResolves(d, online)
  \/ \E d \in Devices : FingerprintRejects(d)
  \/ \E d \in Devices : FingerprintTimerFires(d)
  \/ \E d \in AdminDevices, tokenCode \in TimerTokens, isActive \in BOOLEAN, online \in BOOLEAN :
       CallToggleTokenStatus(d, tokenCode, isActive, online)
  \/ \E d \in Devices, contentType \in ContentTypes : HeadersArrive(d, contentType)
  \/ \E d \in Devices : BodyArrives(d)
  \/ \E d \in Devices : FetchFails(d)
  \/ \E d \in Devices : AbortTimerFires(d)
  \/ \E d \in Devices : OuterTimerFires(d)

SpecTimer == TimerInit /\ [][TimerNext]_vars

\* The timers fire: a timer that stays armed runs its callback.
TimersFire ==
  \A d \in Devices :
    /\ WF_vars(FingerprintTimerFires(d))
    /\ WF_vars(AbortTimerFires(d))
    /\ WF_vars(OuterTimerFires(d))

SpecTimerFair == SpecTimer /\ TimersFire

\* The network request of the call c has been issued and has not ended.
Pending(c) == c.fetch \in {"pending", "headers"}

\* C23: when getDeviceFingerprint rejects or its timer fires first,
\* loginWithToken throws the device identity error, has issued no request,
\* has not run the local verification, and leaves the cache, the session and
\* the remote table as they were.
C23_FingerprintFailureStopsLogin ==
  /\ [](\A d \in Devices, in \in LoginInputs :
          LET r == loginWithToken(d, remote, cache[d], session[d], in[1], in[2], FALSE, in[4]) IN
          /\ r.result = Err("DeviceIdentity", "client") /\ ~r.sent /\ ~r.localRan /\ ~r.mirror
          /\ r.tokens = cache[d] /\ r.session = session[d] /\ r.table = remote)
  /\ [][\A d \in Devices :
          (/\ calls[d] # <<>> /\ calls[d][1].pc = "fingerprint"
           /\ \/ calls'[d][1].fpTimer = "fired"
              \/ FingerprintRejects(d))
          => /\ calls'[d][1].pc = "done"
             /\ calls'[d][1].result = <<Err("DeviceIdentity", "client")>>
             /\ calls'[d][1].fetch = "none" /\ ~calls'[d][1].localRan
             /\ cache' = cache /\ session' = session /\ remote' = remote]_vars

\* A logged-in device with a cached token called loginWithToken again and
\* the timer of the fingerprint fired.
C23_Witness ==
  \E d \in Devices :
    /\ calls[d] # <<>> /\ calls[d][1].pc = "done" /\ calls[d][1].fpTimer = "fired"
    /\ calls[d][1].result = <<Err("DeviceIdentity", "client")>>
    /\ session[d] # <<>> /\ cache[d] # <<>>

\* C24: when the timers fire, every call of loginWithToken ends, by an
\* identity or by an error, whatever getDeviceFingerprint and the network
\* do, never answering included.
C24_LoginWithTokenCompletes ==
  \A d \in Devices :
    (Awaiting(d) /\ calls[d][1].op = "loginWithToken") ~> ~Awaiting(d)

\* A login ended on the timer of withTimeout while the body of its response
\* had not arrived, and one ended on the timer of the fingerprint.
C24_Witness ==
  \E d \in Devices :
    /\ calls[d] # <<>> /\ calls[d][1].op = "loginWithToken" /\ calls[d][1].pc = "done"
    /\ calls[d][1].outerTimer = "fired" /\ calls[d][1].fetch = "headers"
    /\ calls[d][1].result # <<>>

\* C25: no caller of apiRequest has been given a timeout error, or waits
\* with no timer armed, while its network request is pending.
C25_TimeoutAbortsRequest ==
  \A d \in Devices :
    (calls[d] # <<>> /\ Pending(calls[d][1])) =>
      /\ ~calls[d][1].timedOut
      /\ calls[d][1].pc = "request" =>
           "armed" \in {calls[d][1].abortTimer, calls[d][1].outerTimer}

\* The client knows it has no network for a request made as net.
KnownOffline(net) == forceOffline \/ net = "offline"

\* C26: when navigator reports offline or FORCE_OFFLINE is set, no
\* operation issues a request or changes the remote table, and
\* loginWithToken returns what verifyLocalToken finds in the cache.
C26_OfflineIssuesNoRequest ==
  /\ \A d \in Devices :
       calls[d] # <<>> /\ (forceOffline \/ ~calls[d][1].online) =>
         /\ calls[d][1].fetch = "none"
         /\ (/\ calls[d][1].op = "loginWithToken" /\ calls[d][1].result # <<>>
             /\ calls[d][1].result[1].kind # "DeviceIdentity") =>
              calls[d][1].localRan /\ calls[d][1].result[1].origin = "local"
  /\ \A net \in {n \in Nets : KnownOffline(n)}, d \in Devices, code \in TimerTokens :
       /\ ~apiRequest(net, remote, NoRoute(remote)).sent
       /\ \A confirmBinding \in BOOLEAN :
            LET r == loginWithToken(d, remote, cache[d], session[d], code, confirmBinding, TRUE, net) IN
            /\ ~r.sent /\ r.table = remote /\ r.localRan /\ r.remote = "none"
            /\ r.result = verifyLocalToken(cache[d], code, getDeviceFingerprint(d),
                                           confirmBinding).result
       /\ \A flag \in BOOLEAN :
            toggleTokenStatus(remote, cache[d], code, flag, net).table = remote
       /\ resetTokenDevice(remote, cache[d], code, net).table = remote
       /\ deleteToken(remote, cache[d], code, net).table = remote
       /\ \A ref \in PaymentRefs, body \in RandomBodies :
            /\ generateManualToken(remote, cache[d], ref, body, body, net).table = remote
            /\ \A report \in GatewayReports :
                 verifyPaystackPayment(remote, cache[d], ref, report, body, body, net).table
                   = remote
       /\ ~getAllTokens(remote, cache[d], now, net).online
       /\ \A username \in Usernames, password \in Passwords, role \in Roles :
            ~loginUser(remote, store[d], session[d], username, password, role, net).sent

\* A browser that reports offline, on a build without FORCE_OFFLINE, was
\* let in by loginWithToken from its cache, with no fetch issued.
C26_Witness ==
  \E d \in Devices :
    /\ ~forceOffline /\ calls[d] # <<>> /\ ~calls[d][1].online
    /\ calls[d][1].op = "loginWithToken" /\ calls[d][1].pc = "done"
    /\ calls[d][1].fetch = "none" /\ calls[d][1].result # <<>> /\ calls[d][1].result[1].ok
    /\ session[d] = <<calls[d][1].result[1].user>>

\* C27: when the remote call of toggleTokenStatus, resetTokenDevice or
\* deleteToken fails, the change is applied to the cache and the caller is
\* given success.
C27_AdminFallsBackToLocal ==
  \A d \in Devices, code \in Codes, net \in Nets :
    /\ \A isActive \in BOOLEAN :
         ~apiRequest(net, remote, TokenStatusRoute(server, remote, code, isActive)).ok =>
           LET r == toggleTokenStatus(remote, cache[d], code, isActive, net) IN
           r.ok /\ r.tokens = updateLocalToken(cache[d], code, [is_active |-> isActive])
    /\ ~apiRequest(net, remote, ResetTokenDeviceRoute(server, remote, code)).ok =>
         LET r == resetTokenDevice(remote, cache[d], code, net) IN
         r.ok /\ r.tokens = updateLocalToken(cache[d], code, [device_fingerprint |-> Null])
    /\ ~apiRequest(net, remote, DeleteTokenRoute(server, remote, code)).ok =>
         LET r == deleteToken(remote, cache[d], code, net) IN
         r.ok /\ r.tokens = deleteLocalToken(cache[d], code)

\* The statuses a response can carry.
Statuses == {200, 401, 404, 500}

\* C28: a response whose content type is not JSON gives the caller of
\* apiRequest no data, whatever its status; a token login answered that way
\* makes no mirror write and takes cache and session from the local
\* verification alone.
C28_NonJsonIsFailure ==
  /\ [](\A status \in Statuses, net \in Nets, user \in {NoUser, LocalUser(MirrorToken("ACE", "F1", NoUser))} :
          LET api == apiRequest(net, remote, Reply(remote, status, "NonJson", user)) IN
          ~api.ok /\ api.user = NoUser)
  /\ [][\A d \in Devices :
          (calls[d] # <<>> /\ calls[d][1].fetch = "pending" /\ calls'[d][1].fetch = "unread") =>
            /\ calls'[d][1].pc = "done" /\ calls'[d][1].result # <<>>
            /\ calls'[d][1].result[1].ok => calls'[d][1].result[1].origin = "local"
            /\ mirrored' = mirrored
            /\ calls[d][1].op = "loginWithToken" =>
                 LET v == verifyLocalToken(cache[d], calls[d][1].token, getDeviceFingerprint(d),
                                           calls[d][1].flag) IN
                 /\ calls'[d][1].localRan
                 /\ cache'[d] = v.tokens
                 /\ session'[d] = IF v.result.ok THEN <<v.result.user>> ELSE session[d]
            /\ calls[d][1].op # "loginWithToken" => cache' = cache /\ session' = session]_vars

\* On a build that has the login route, a token login was answered 200 with
\* a page: it ended on the local path with no session and no mirror.
C28_Witness ==
  \E d \in Devices :
    /\ server = ServerJs /\ calls[d] # <<>> /\ calls[d][1].op = "loginWithToken"
    /\ calls[d][1].fetch = "unread" /\ calls[d][1].pc = "done" /\ calls[d][1].localRan
    /\ session[d] = <<>> /\ mirrored[d] = {}

\* ---------------------------------------------------------------------
\* localStorage as text: the readers of the three persisted collections.
\* ---------------------------------------------------------------------

\* The keys of the three collections.
Keys == {"LOCAL_TOKENS_KEY", "LOCAL_USERS_KEY", "CURRENT_USER_KEY"}

\* What getItem returns: null for a key that is not set, else the text,
\* which is the JSON of a value or text that JSON.parse rejects.
Missing == [kind |-> "missing"]

Json(value) == [kind |-> "json", value |-> value]

Text(text) == [kind |-> "text", text |-> text]

\* The unparsable texts: the empty string and a truncated object.
CorruptTexts == {"", "{\"username\":"}

\* JSON.parse: null is read as the text "null" and gives null.
JsonParse(item) ==
  CASE item.kind = "json" -> [threw |-> FALSE, value |-> item.value]
    [] item.kind = "missing" -> [threw |-> FALSE, value |-> <<>>]
    [] OTHER -> [threw |-> TRUE, value |-> <<>>]

\* item || '[]': null and the empty string are falsy.
OrEmptyList(item) ==
  IF item.kind = "missing" \/ (item.kind = "text" /\ item.text = "") THEN Json(<<>>) ELSE item

\* try { return JSON.parse(getItem(key) || '[]') } catch(e) { return [] }
ReadList(item) ==
  LET parsed == JsonParse(OrEmptyList(item)) IN
  IF parsed.threw THEN [threw |-> FALSE, value |-> <<>>] ELSE parsed

\* stored ? JSON.parse(stored) : null, the identity as <<>> or <<user>>.
ReadCurrentUser(item) ==
  IF item.kind = "missing" \/ (item.kind = "text" /\ item.text = "")
    THEN [threw |-> FALSE, value |-> <<>>]
  ELSE JsonParse(item)

\* getLocalTokens, getLocalStudents and getCurrentUser on the stored item.
Reader(key, item) ==
  IF key = "CURRENT_USER_KEY" THEN ReadCurrentUser(item) ELSE ReadList(item)

\* The values the client stores under a key.
StoredValues(key) ==
  CASE key = "LOCAL_TOKENS_KEY" -> TimerCaches
    [] key = "LOCAL_USERS_KEY" -> LocalStudents
    [] OTHER -> {<<AdminUser("admin")>>}

\* The storage of a browser in which nothing was stored.
EmptyStorage == EmptyStore @@ [items |-> [k \in Keys |-> Missing]]

StorageInit ==
  /\ \E dep \in SessionDeployments :
       server = dep[1] /\ client = dep[2] /\ forceOffline = dep[3]
  /\ now = 0
  /\ remote = EmptyTable
  /\ cache = [d \in Devices |-> <<>>]
  /\ session = [d \in Devices |-> <<>>]
  /\ mirrored = [d \in Devices |-> {}]
  /\ requests = [d \in Devices |-> <<>>]
  /\ listing = <<>>
  /\ store = [d \in Devices |-> EmptyStorage]
  /\ calls = [d \in Devices |-> <<>>]

\* localStorage.setItem(key, JSON.stringify(value)) by the client.
SetItem(d, key, value) ==
  /\ store' = [store EXCEPT ![d].items[key] = Json(value)]
  /\ UNCHANGED <<calls, listing, requests, server, client, forceOffline, now, remote, cache,
                 session, mirrored>>

\* localStorage.removeItem(key), or the browser's data being cleared.
RemoveItem(d, key) ==
  /\ store[d].items[key] # Missing
  /\ store' = [store EXCEPT ![d].items[key] = Missing]
  /\ UNCHANGED <<calls, listing, requests, server, client, forceOffline, now, remote, cache,
                 session, mirrored>>

\* Something other than the client leaves text under the key that is not
\* JSON.
Corrupt(d, key, text) ==
  /\ store' = [store EXCEPT ![d].items[key] = Text(text)]
  /\ UNCHANGED <<calls, listing, requests, server, client, forceOffline, now, remote, cache,
                 session, mirrored>>

\* The reader of the key is called on device d.
Read(d, key) ==
  /\ calls' = [calls EXCEPT ![d] = <<[op |-> key] @@ Reader(key, store[d].items[key])>>]
  /\ UNCHANGED <<store, listing, requests, server, client, forceOffline, now, remote, cache,
                 session, mirrored>>

StorageNext ==
  \E d \in PaymentDevices, key \in Keys :
    \/ \E value \in StoredValues(key) : SetItem(d, key, value)
    \/ RemoveItem(d, key)
    \/ \E text \in CorruptTexts : Corrupt(d, key, text)
    \/ Read(d, key)

SpecStorage == StorageInit /\ [][StorageNext]_vars

\* C29: reading cached tokens, local students or the current session when
\* the stored value is missing or cannot be parsed gives an empty
\* collection, or no identity, and does not throw.
C29_ReadersTolerateCorruptStorage ==
  \A d \in Devices, key \in Keys :
    store[d].items[key].kind # "json" =>
      LET r == Reader(key, store[d].items[key]) IN ~r.threw /\ r.value = <<>>

\* The records of the cache before are all in the cache after, as they were.
KeepsRecords(before, after) ==
  \A i \in 1..Len(before) : \E j \in 1..Len(after) : after[j] = before[i]

\* C30: on every creation path and for every value of the random source,
\* the new code is not one the authority written to already holds, and the
\* records it holds are left as they were.
C30_CreateIsFresh ==
  \A d \in Devices, body \in RandomBodies, reference \in PaymentRefs :
    /\ LET code == generateSecureToken(IF forceOffline THEN "ACE" ELSE "LOCAL", body) IN
       /\ \A i \in 1..Len(cache[d]) : cache[d][i].token_code # code
       /\ KeepsRecords(cache[d], generateLocalTokenImmediate(cache[d], reference, body))
    /\ forceOffline =>
         /\ \A i \in 1..Len(cache[d]) :
              cache[d][i].token_code # generateSecureToken("OFFLINE", body)
         /\ \A report \in GatewayReports :
              KeepsRecords(cache[d],
                verifyPaystackPayment(remote, cache[d], reference, report, body, body, "ok").tokens)
    /\ LET r == GenerateTokenRoute(server, remote, now, reference, body) IN
       /\ \A c \in DOMAIN remote : c \in DOMAIN r.table /\ r.table[c] = remote[c]
       /\ server \in {ViteB, Part2} => generateTokenCode("ACE", body) \notin DOMAIN remote
    /\ \A report \in GatewayReports :
         LET r == VerifyPaystackRoute(server, remote, now, reference, report, body) IN
         \A c \in DOMAIN remote : c \in DOMAIN r.table /\ r.table[c] = remote[c]

\* No two records of the list have the same code.
OneRecordPerCode(tokens) ==
  \A i, j \in 1..Len(tokens) : tokens[i].token_code = tokens[j].token_code => i = j

C32_LookupByNormalizedCode ==
  \A d \in Devices, pair \in TypedLower \cup TypedPadded, confirmBinding \in BOOLEAN,
     net \in Nets :
    LET typed == loginWithToken(d, remote, cache[d], session[d], pair[1], confirmBinding, TRUE, net)
        code == loginWithToken(d, remote, cache[d], session[d], pair[2], confirmBinding, TRUE, net)
    IN typed.result.ok = code.result.ok /\ typed.result.kind = code.result.kind

\* The indices of the records of the code in the list.
RecordsOf(tokens, code) == {i \in 1..Len(tokens) : tokens[i].token_code = code}

\* C33: after loginWithToken is let in by the remote route for a code, the
\* cache holds one record of the code, bound to this device and of provenance
\* ONLINE_CACHE, whatever it held for the code before; when the remote call
\* fails or answers requires_binding the cache is what the local path alone
\* leaves, with no mirror record written.
C33_MirrorAfterOnlineLogin ==
  \A d \in Devices, in \in LoginInputs :
    LET r == loginWithToken(d, remote, cache[d], session[d], in[1], in[2], in[3], in[4]) IN
    IF r.result.ok /\ r.result.origin = "remote"
      THEN /\ Cardinality(RecordsOf(r.tokens, in[1])) = 1
           /\ Cached(r.tokens, in[1]).device_fingerprint = getDeviceFingerprint(d)
           /\ Cached(r.tokens, in[1]).metadata.generated_by = "ONLINE_CACHE"
           /\ Cached(r.tokens, in[1]).is_active
           /\ \A i \in 1..Len(cache[d]) :
                cache[d][i].token_code # in[1] => \E j \in 1..Len(r.tokens) : r.tokens[j] = cache[d][i]
    ELSE /\ ~r.mirror
         /\ r.tokens = IF r.localRan
                         THEN verifyLocalToken(cache[d], in[1], getDeviceFingerprint(d), in[2]).tokens
                       ELSE cache[d]

\* A device whose cached record of a code was deactivated or reset on the
\* device alone is let in online with that code.
C33_Witness ==
  \E d \in Devices : \E code \in CachedCodes(cache[d]) :
    /\ ~Cached(cache[d], code).is_active \/ Cached(cache[d], code).device_fingerprint = Null
    /\ LET r == Login(d, code, TRUE, "ok") IN r.result.ok /\ r.result.origin = "remote" /\ r.mirror

\* The fields of an identity that make its shape for a token login.
Shape(user) ==
  [role |-> user.role, regNumber |-> user.regNumber, isTokenLogin |-> user.isTokenLogin,
   allowedExamType |-> user.allowedExamType]

\* C34: a token login that succeeds returns a student whose regNumber and
\* username are the token's code, and for one token the remote route and the
\* offline fallback return identities of the same shape.
C34_TokenIdentityShape ==
  \A d \in Devices, token \in TypedCodes, confirmBinding \in BOOLEAN :
    /\ \A net \in Nets :
         LET r == Login(d, token, confirmBinding, net) IN
         r.result.ok =>
           /\ r.result.user.role = "student"
           /\ r.result.user.regNumber = ToUpperCase(Trim(token))
           /\ r.result.user.username = ToUpperCase(Trim(token))
    /\ LET online == Login(d, token, confirmBinding, "ok")
           offline == Login(d, token, confirmBinding, "unreachable")
       IN (/\ online.result.ok /\ online.result.origin = "remote"
           /\ offline.result.ok)
          => Shape(online.result.user) = Shape(offline.result.user)

\* ---------------------------------------------------------------------
\* The generators of codes, character by character.
\* ---------------------------------------------------------------------

\* const chars = 'ABCDEFGHJKLMNPQRSTUVWXYZ23456789'
chars ==
  <<"A", "B", "C", "D", "E", "F", "G", "H", "J", "K", "L", "M", "N", "P", "Q", "R",
    "S", "T", "U", "V", "W", "X", "Y", "Z", "2", "3", "4", "5", "6", "7", "8", "9">>

\* const length = 12
CodeLength == 12

\* The three random sources: crypto.getRandomValues on a Uint32Array,
\* Math.random, crypto.randomBytes.
Sources == {"getRandomValues", "Math.random", "randomBytes"}

\* Math.random returns n / RandomResolution for some n below RandomResolution.
RandomResolution == 2^20

\* The values a source can give: a 32-bit word as its two halves, the
\* numerator of a fraction below 1, a byte.
Draws(source) ==
  CASE source = "getRandomValues" ->
         {[hi |-> 0, lo |-> l] : l \in {0, 1, 2, 31, 32, 65535}}
           \cup {[hi |-> 65535, lo |-> l] : l \in {0, 65535}}
    [] source = "Math.random" ->
         {0, (RandomResolution \div 32) - 1, RandomResolution \div 32,
          2 * (RandomResolution \div 32), RandomResolution - 1}
    [] OTHER -> {0, 1, 2, 31, 32, 255}

\* Math.round in place of Math.floor, and no reduction of a word or byte.
IndexOfUnreduced(source, value) ==
  CASE source = "getRandomValues" -> value.lo
    [] source = "Math.random" -> (value * Len(chars) * 2 + RandomResolution) \div (2 * RandomResolution)
    [] OTHER -> value

\* values[i] % chars.length, Math.floor(Math.random() * chars.length),
\* randomBytes[i] % chars.length
IndexOf(source, value) ==
  CASE source = "getRandomValues" ->
         (((value.hi % Len(chars)) * (65536 % Len(chars))) + value.lo) % Len(chars)
    [] source = "Math.random" -> (value * Len(chars)) \div RandomResolution
    [] OTHER -> value % Len(chars)

\* chars.charAt(index): the empty string outside the string.
charAt(index) == IF index \in 0..(Len(chars) - 1) THEN <<chars[index + 1]>> ELSE <<>>

\* result.substring(from, to) on a list of characters.
substring(result, from, to) ==
  SubSeq(result, from + 1, IF to <= Len(result) THEN to ELSE Len(result))

\* `${prefix}-${...}-${...}-${...}` as the list of its parts.
FormatCode(prefix, result) ==
  <<prefix, "-">> \o substring(result, 0, 4) \o <<"-">> \o substring(result, 4, 8)
    \o <<"-">> \o substring(result, 8, 12)

\* The function that generates with the source, and the prefixes it is
\* called with.
Generators ==
  {[name |-> "generateSecureToken", source |-> "getRandomValues"],
   [name |-> "generateSecureToken", source |-> "Math.random"],
   [name |-> "generateTokenCode", source |-> "randomBytes"],
   [name |-> "generateAccessCode", source |-> "randomBytes"]}

PrefixesOf(name) == IF name = "generateSecureToken" THEN Prefixes ELSE {"ACE"}

\* A generator is called: the values its source will give for the three
\* groups of positions are drawn, nothing is generated yet.
CodeInit ==
  /\ server = ServerJs /\ client = AuthTs /\ forceOffline = FALSE
  /\ now = 0
  /\ remote = EmptyTable
  /\ cache = [d \in Devices |-> <<>>]
  /\ session = [d \in Devices |-> <<>>]
  /\ mirrored = [d \in Devices |-> {}]
  /\ requests = [d \in Devices |-> <<>>]
  /\ listing = <<>>
  /\ store = [d \in Devices |-> EmptyStore]
  /\ \E g \in Generators : \E prefix \in PrefixesOf(g.name) :
       \E v1 \in Draws(g.source), v2 \in Draws(g.source), v3 \in Draws(g.source) :
         calls = [d \in Devices |->
                    IF d \in PaymentDevices
                      THEN <<[op |-> g.name, source |-> g.source, prefix |-> prefix,
                              values |-> [i \in 1..CodeLength |->
                                            IF i <= 4 THEN v1 ELSE IF i <= 8 THEN v2 ELSE v3],
                              result |-> <<>>, i |-> 0, code |-> <<>>]>>
                    ELSE <<>>]

\* One turn of the loop: result += chars.charAt(index of values[i]).
AppendChar(d) ==
  /\ calls[d] # <<>> /\ calls[d][1].i < CodeLength
  /\ LET c == calls[d][1] IN
     calls' = [calls EXCEPT ![d] =
                 <<[c EXCEPT !.result = @ \o charAt(IndexOf(c.source, c.values[c.i + 1])),
                             !.i = @ + 1]>>]
  /\ UNCHANGED <<store, listing, requests, server, client, forceOffline, now, remote, cache,
                 session, mirrored>>

\* The return of the generator.
ReturnCode(d) ==
  /\ calls[d] # <<>> /\ calls[d][1].i = CodeLength /\ calls[d][1].code = <<>>
  /\ calls' = [calls EXCEPT ![d] =
                 <<[calls[d][1] EXCEPT !.code = <<FormatCode(calls[d][1].prefix, calls[d][1].result)>>]>>]
  /\ UNCHANGED <<store, listing, requests, server, client, forceOffline, now, remote, cache,
                 session, mirrored>>

CodeNext == \E d \in Devices : AppendChar(d) \/ ReturnCode(d)

SpecCode == CodeInit /\ [][CodeNext]_vars

\* The list of parts is PREFIX-XXXX-XXXX-XXXX over the alphabet.
WellFormed(code, prefix) ==
  /\ Len(code) = 16
  /\ code[1] = prefix
  /\ \A k \in 2..16 :
       IF k \in {2, 7, 12} THEN code[k] = "-"
       ELSE \E n \in 1..32 : code[k] = chars[n]

\* C35: for every value of the random source, strong or weak, every
\* generator returns the prefix and three groups of 4 characters of the
\* 32-symbol alphabet, separated by '-'.
C35_CodeFormat ==
  /\ Len(chars) = 32 /\ {"0", "O", "1", "I"} \cap {chars[n] : n \in 1..Len(chars)} = {}
  /\ \A n, m \in 1..Len(chars) : chars[n] = chars[m] => n = m
  /\ \A d \in Devices :
       (calls[d] # <<>> /\ calls[d][1].code # <<>>) =>
         WellFormed(calls[d][1].code[1], calls[d][1].prefix)

\* The weak source gave its largest value and a generator returned a code;
\* the strong source gave the largest word and a generator returned a code.
C35_Witness ==
  \E d \in Devices :
    /\ calls[d] # <<>> /\ calls[d][1].code # <<>>
    /\ \/ calls[d][1].source = "Math.random" /\ calls[d][1].values[1] = RandomResolution - 1
       \/ calls[d][1].source = "getRandomValues" /\ calls[d][1].values[1] = [hi |-> 65535, lo |-> 65535]
    /\ calls[d][1].code[1][3] = "9"

\* C37: a loginWithToken call that throws a denial (invalid code,
\* deactivated, expired, locked to another device) leaves the remote table,
\* the cache of the device and its stored session as they were before the
\* call, however the request fared.
C37_DenialChangesNothing ==
  \A d \in Devices, token \in TokenInputs, confirm \in BOOLEAN, net \in Nets :
    LET r == Login(d, token, confirm, net)
    IN (~r.result.ok /\ r.result.kind \in Denials) =>
         (r.table = remote /\ r.tokens = cache[d] /\ r.session = session[d])

\* The same frame for the calls whose request got an answer or never left
\* the device.
C37_DenialChangesNothingAnswered ==
  \A d \in Devices, token \in TokenInputs, confirm \in BOOLEAN, net \in Nets \ {"lost"} :
    LET r == Login(d, token, confirm, net)
    IN (~r.result.ok /\ r.result.kind \in Denials) =>
         (r.table = remote /\ r.tokens = cache[d] /\ r.session = session[d])

\* The call of device d is a loginWithToken whose withTimeout timer has fired.
TimedOutLogin(c) ==
  c # <<>> /\ c[1].op = "loginWithToken" /\ c[1].outerTimer = "fired"

\* C38: when the timer of withTimeout fires before the response of the
\* login request has been read, the call ends there with the result and the
\* writes of the local verification, and from then on nothing that arrives
\* for that call changes its result, the cache or the session of the device.
C38_LateResponseWritesNothing ==
  /\ [](\A d \in Devices :
          TimedOutLogin(calls[d]) =>
            (calls[d][1].pc = "done" /\ calls[d][1].localRan
               /\ calls[d][1].result[1].origin = "local"))
  /\ [][\A d \in Devices :
          /\ (~TimedOutLogin(calls[d]) /\ TimedOutLogin(calls'[d])) =>
               LET c == calls[d][1]
                   r == LoginLocal(remote, cache[d], session[d], c.token,
                                   getDeviceFingerprint(d), c.flag, TRUE, "none")
               IN /\ calls[d] # <<>> /\ c.fetch = "headers" /\ calls'[d][1].fetch = "headers"
                  /\ cache'[d] = r.tokens /\ session'[d] = r.session
                  /\ calls'[d][1].result = <<r.result>>
          /\ (TimedOutLogin(calls[d]) /\ TimedOutLogin(calls'[d])) =>
               /\ cache'[d] = cache[d] /\ session'[d] = session[d]
               /\ mirrored'[d] = mirrored[d]
               /\ calls'[d][1].result = calls[d][1].result]_vars

\* The timer fired, the local verification refused the code, and then the
\* body of a successful answer of the server was read: the device holds no
\* record and no session.
C38_Witness ==
  \E d \in Devices :
    /\ TimedOutLogin(calls[d]) /\ calls[d][1].fetch = "body"
    /\ calls[d][1].reply[1].status = 200 /\ calls[d][1].reply[1].kind = "Success"
    /\ ~calls[d][1].result[1].ok
    /\ cache[d] = <<>> /\ session[d] = <<>> /\ mirrored[d] = {}

\* ---------------------------------------------------------------------
\* Payments: interleaved requests of POST /api/payments/verify-paystack.
\* ---------------------------------------------------------------------

\* The bodies generateTokenCode draws for the interleaved requests.
PaymentBodies == {"AAAA-BBBB-CCCC", "DDDD-EEEE-FFFF"}

\* The references the interleaved requests carry.
RaceRefs == {"REF1", "REF2"}

\* The builds that define the route.
PaymentServers == {ServerJs, ViteB, Part2}

\* A request of the route between its awaits: the rows its select returned
\* and, once answered, the status and the kind of the response.
PaymentRequest(stage, reference, selected, status, kind) ==
  [stage |-> stage, reference |-> reference, selected |-> selected,
   status |-> status, kind |-> kind]

\* .select(...).eq('metadata->>payment_ref', reference): the rows returned.
SelectByReference(table, reference) ==
  [c \in RowsOfReference(table, reference) |-> table[c]]

PaymentInit ==
  /\ server \in PaymentServers
  /\ client = AuthTs
  /\ forceOffline = FALSE
  /\ now = 0
  /\ remote = EmptyTable
  /\ cache = [d \in Devices |-> <<>>]
  /\ session = [d \in Devices |-> <<>>]
  /\ mirrored = [d \in Devices |-> {}]
  /\ requests = [d \in Devices |-> <<>>]
  /\ listing = <<>>
  /\ store = [d \in Devices |-> EmptyStore]
  /\ calls = [d \in Devices |-> <<>>]

\* The request of device d arrives and the route awaits its select.
PaymentRead(d, reference) ==
  /\ requests[d] = <<>>
  /\ requests' = [requests EXCEPT ![d] =
       <<PaymentRequest("read", reference, SelectByReference(remote, reference), 0, "none")>>]
  /\ UNCHANGED <<store, calls, listing, server, client, forceOffline, now, remote, cache, session, mirrored>>

\* The route goes on from the rows it selected: it answers with the
\* existing code, or asks the gateway, and on a paid report inserts a row
\* with a new code into the table as it is now, and answers.
PaymentWrite(d, report, body) ==
  /\ requests[d] # <<>> /\ requests[d][1].stage = "read"
  /\ LET q == requests[d][1]
         decision == VerifyPaystackRoute(server, q.selected, now, q.reference, report, body)
         reply == IF DOMAIN decision.table # DOMAIN q.selected
                    THEN InsertToken(server, remote, now, generateTokenCode("ACE", body),
                                     q.reference, ExamType, FullName, Undefined)
                  ELSE Reply(remote, decision.res.status, decision.res.kind, NoUser)
     IN /\ remote' = reply.table
        /\ requests' = [requests EXCEPT ![d] =
             <<[q EXCEPT !.stage = "done", !.status = reply.res.status, !.kind = reply.res.kind]>>]
  /\ UNCHANGED <<store, calls, listing, server, client, forceOffline, now, cache, session, mirrored>>

\* The response reaches the device.
PaymentReceive(d) ==
  /\ requests[d] # <<>> /\ requests[d][1].stage = "done"
  /\ requests' = [requests EXCEPT ![d] = <<>>]
  /\ UNCHANGED <<store, calls, listing, server, client, forceOffline, now, remote, cache, session, mirrored>>

PaymentNext ==
  \/ \E d \in Devices, reference \in RaceRefs : PaymentRead(d, reference)
  \/ \E d \in Devices, report \in GatewayReports, body \in PaymentBodies : PaymentWrite(d, report, body)
  \/ \E d \in Devices : PaymentReceive(d)

SpecPayment == PaymentInit /\ [][PaymentNext]_vars

\* C39: for every payment reference, however the requests of the payment
\* route that carry it interleave, the table never holds more than one token
\* of that reference, and the successful responses for it carry the same
\* token code.
C39_OneTokenPerReference ==
  /\ \A reference \in RaceRefs : Cardinality(RowsOfReference(remote, reference)) <= 1
  /\ \A d1, d2 \in Devices :
       (/\ requests[d1] # <<>> /\ requests[d2] # <<>>
        /\ requests[d1][1].stage = "done" /\ requests[d2][1].stage = "done"
        /\ requests[d1][1].status = 200 /\ requests[d2][1].status = 200
        /\ requests[d1][1].reference = requests[d2][1].reference)
       => requests[d1][1].kind = requests[d2][1].kind

\* ---------------------------------------------------------------------
\* Double submission: overlapping loginWithToken calls of one device.
\* ---------------------------------------------------------------------

\* The calls of loginWithToken a device has in progress or ended.
MaxCalls == 2

\* The device that submits.
Submitters == Devices \ AdminDevices

\* The codes submitted: one created on the server, one generated on the device.
SubmittedTokens == {generateSecureToken(p, b) : p \in {"ACE", "LOCAL"}, b \in RandomBodies}

DoubleInit ==
  /\ \E dep \in SessionDeployments :
       server = dep[1] /\ client = dep[2] /\ forceOffline = dep[3]
  /\ now = 0
  /\ remote \in CreatedTables
  /\ cache \in [Devices -> TimerCaches]
  /\ \A d \in Devices \ Submitters : cache[d] = <<>>
  /\ session = [d \in Devices |-> <<>>]
  /\ mirrored = [d \in Devices |-> {}]
  /\ requests = [d \in Devices |-> <<>>]
  /\ listing = <<>>
  /\ store = [d \in Devices |-> EmptyStore]
  /\ calls = [d \in Devices |-> <<>>]

\* The k-th call of device d becomes c.
SetCall(d, k, c) == calls' = [calls EXCEPT ![d][k] = c]

\* The k-th call of device d ends by throwing to its caller.
ThrowIn(d, k, c, error) ==
  /\ SetCall(d, k, [c EXCEPT !.pc = "done", !.result = <<error>>])
  /\ UNCHANGED <<cache, session, mirrored>>

\* The tail of loginWithToken in the k-th call of device d (auth.ts 201-203).
RunLocalIn(d, k, c) ==
  LET r == LoginLocal(remote, cache[d], session[d], c.token, getDeviceFingerprint(d), c.flag,
                      c.fetch # "none", "none") IN
  /\ cache' = [cache EXCEPT ![d] = r.tokens]
  /\ session' = [session EXCEPT ![d] = r.session]
  /\ SetCall(d, k, [c EXCEPT !.pc = "done", !.localRan = TRUE, !.result = <<r.result>>])
  /\ UNCHANGED mirrored

\* The call k of device d is awaiting something.
AwaitingIn(d, k) == k \in 1..Len(calls[d]) /\ calls[d][k].pc # "done"

\* The form is submitted: loginWithToken(token, true) starts on device d
\* while the calls before it, for the same code, may still be running.
SubmitLogin(d, token) ==
  /\ Len(calls[d]) < MaxCalls
  /\ \A k \in 1..Len(calls[d]) : calls[d][k].token = token
  /\ calls' = [calls EXCEPT ![d] =
                 Append(@, [NewCall("loginWithToken", token, TRUE)
                              EXCEPT !.pc = "fingerprint", !.fpTimer = "armed"])]
  /\ UNCHANGED <<store, listing, requests, server, client, forceOffline, now, remote, cache,
                 session, mirrored>>

\* getDeviceFingerprint settles in the call k: resolved, the call goes on to
\* the request or to the local path; rejected or timed out, it throws.
FingerprintSettles(d, k, resolved, online) ==
  /\ AwaitingIn(d, k) /\ calls[d][k].pc = "fingerprint"
  /\ IF resolved
       THEN LET c == IssueRequest([calls[d][k] EXCEPT !.fpTimer = "cleared"], online, TRUE) IN
            IF c.fetch = "pending"
              THEN SetCall(d, k, c) /\ UNCHANGED <<cache, session, mirrored>>
            ELSE RunLocalIn(d, k, c)
     ELSE ThrowIn(d, k, [calls[d][k] EXCEPT !.fpTimer = "fired"], Err("DeviceIdentity", "client"))
  /\ UNCHANGED <<store, listing, requests, server, client, forceOffline, now, remote>>

\* The server handles the request of the call k and its headers arrive.
ResponseHeaders(d, k, contentType) ==
  /\ k \in 1..Len(calls[d]) /\ calls[d][k].fetch = "pending"
  /\ LET c == calls[d][k]
         reply == Answer(d, c, contentType)
     IN
     /\ remote' = reply.table
     /\ IF reply.res.kind = "NonJson"
          THEN RunLocalIn(d, k, [c EXCEPT !.fetch = "unread", !.abortTimer = "cleared",
                                           !.outerTimer = clearTimeout(@)])
        ELSE /\ SetCall(d, k, [c EXCEPT !.fetch = "headers", !.abortTimer = "cleared",
                                        !.reply = <<reply.res>>])
             /\ UNCHANGED <<cache, session, mirrored>>
  /\ UNCHANGED <<store, listing, requests, server, client, forceOffline, now>>

\* The body of the response of the call k is read (auth.ts 90-92, 182-195).
ResponseBody(d, k) ==
  /\ k \in 1..Len(calls[d]) /\ calls[d][k].fetch = "headers"
  /\ LET c == [calls[d][k] EXCEPT !.fetch = "body", !.outerTimer = clearTimeout(@)]
         res == c.reply[1]
     IN
     IF c.pc = "done"
       THEN SetCall(d, k, c) /\ UNCHANGED <<cache, session, mirrored>>
     ELSE IF res.status # 200 THEN RunLocalIn(d, k, c)
     ELSE IF res.kind = "RequiresBinding"
       THEN IF RethrowsBindingRequired(client)
              THEN ThrowIn(d, k, c, Err("BindingRequired", "remote"))
            ELSE RunLocalIn(d, k, c)
     ELSE /\ cache' = [cache EXCEPT ![d] =
                         saveLocalToken(@, MirrorToken(c.token, getDeviceFingerprint(d), res.user))]
          /\ session' = [session EXCEPT ![d] = <<res.user>>]
          /\ mirrored' = [mirrored EXCEPT ![d] = @ \cup {c.token}]
          /\ SetCall(d, k, [c EXCEPT !.pc = "done", !.result = <<Ok(res.user, "remote")>>])
  /\ UNCHANGED <<store, listing, requests, server, client, forceOffline, now, remote>>

\* The fetch of the call k rejects, in transport or aborted by its timer.
RequestFails(d, k, aborted) ==
  /\ k \in 1..Len(calls[d]) /\ calls[d][k].fetch = "pending"
  /\ RunLocalIn(d, k, [calls[d][k] EXCEPT
                         !.fetch = IF aborted THEN "aborted" ELSE "failed",
                         !.abortTimer = IF aborted THEN "fired" ELSE "cleared",
                         !.outerTimer = clearTimeout(@), !.timedOut = aborted])
  /\ UNCHANGED <<store, listing, requests, server, client, forceOffline, now, remote>>

\* The timer of withTimeout fires in the call k.
RequestTimesOut(d, k) ==
  /\ AwaitingIn(d, k) /\ calls[d][k].outerTimer = "armed"
  /\ calls[d][k].abortTimer = "armed" => ~FiresFirst(FetchTimeout, RequestTimeout)
  /\ RunLocalIn(d, k, [calls[d][k] EXCEPT !.outerTimer = "fired", !.timedOut = TRUE])
  /\ UNCHANGED <<store, listing, requests, server, client, forceOffline, now, remote>>

DoubleNext ==
  \/ \E d \in Submitters, token \in SubmittedTokens : SubmitLogin(d, token)
  \/ \E d \in Submitters, k \in 1..MaxCalls, resolved \in BOOLEAN, online \in BOOLEAN :
       FingerprintSettles(d, k, resolved, online)
  \/ \E d \in Submitters, k \in 1..MaxCalls, contentType \in ContentTypes :
       ResponseHeaders(d, k, contentType)
  \/ \E d \in Submitters, k \in 1..MaxCalls : ResponseBody(d, k)
  \/ \E d \in Submitters, k \in 1..MaxCalls, aborted \in BOOLEAN : RequestFails(d, k, aborted)
  \/ \E d \in Submitters, k \in 1..MaxCalls : RequestTimesOut(d, k)

SpecDouble == DoubleInit /\ [][DoubleNext]_vars

\* The fingerprints the code is bound to, remotely and in the cache of d.
BoundTo(d, code) ==
  {remote[c].device_fingerprint : c \in {code} \cap DOMAIN remote}
    \cup {cache[d][i].device_fingerprint : i \in RecordsOf(cache[d], code)}

\* The stored session of d is the identity of the code.
SessionOf(d, code) ==
  /\ session[d][1].role = "student"
  /\ session[d][1].username = code
  /\ session[d][1].regNumber = code
  /\ session[d][1].isTokenLogin = TRUE

\* C36: while and after loginWithToken calls for one code overlap on a
\* device, the code is bound to no fingerprint but the device's, remotely
\* and in the cache; the cache holds at most one record of the code; the
\* stored session, if any, is the identity of that code; and a call that
\* returned an identity left the code bound to the device.
C36_DoubleSubmissionSafe ==
  \A d \in Submitters :
    calls[d] # <<>> =>
      LET code == calls[d][1].token IN
      /\ BoundTo(d, code) \subseteq {Null, getDeviceFingerprint(d)}
      /\ Cardinality(RecordsOf(cache[d], code)) <= 1
      /\ session[d] # <<>> => SessionOf(d, code)
      /\ \A k \in 1..Len(calls[d]) :
           (calls[d][k].pc = "done" /\ calls[d][k].result[1].ok) =>
             getDeviceFingerprint(d) \in BoundTo(d, code)

====
